---- MODULE Spec2Model ----
(***************************************************************************)
(* A model of bincol: tracing a serde value into a Trace tape and a        *)
(* SchemaBuilder draft (builder.rs), unifying drafts, building the         *)
(* interned RootSchema, and emitting the traced Value through the          *)
(* ValueCursor (ser.rs).                                                   *)
(*                                                                         *)
(* Indices (NameIndex, SchemaIndex, ...) are 0-based naturals; a pool is a  *)
(* sequence and index i denotes its element i + 1.  Option<T> is a         *)
(* sequence of length 0 or 1.  TypeName(name, None) is <<name>> and        *)
(* TypeName(name, Some(variant)) is <<name, variant>>.                     *)
(***************************************************************************)
EXTENDS Integers, Sequences, FiniteSets, TLC

VARIABLES
    data,          \* RootSchemaBuilder.data: the trace tape, a sequence of bytes
    names,         \* RootSchemaBuilder.names pool
    name_lists,    \* RootSchemaBuilder.name_lists pool
    schemas,       \* RootSchemaBuilder.schemas pool  (RootSchema.schemas once built)
    schema_lists,  \* RootSchemaBuilder.schema_lists pool
    field_lists,   \* RootSchemaBuilder.field_lists pool
    root,          \* RootSchemaBuilder.root: the draft of the traced value
    root_index,    \* Value.root_index, <<>> until into_value has run
    stack,         \* the open composite serializers (innermost last)
    phase,         \* "trace", "traced", "built", "emitted"
    out,           \* what Value::serialize drove into the sink
    traced,        \* the value the framework presented, <<>> until complete
    starts,        \* tape offsets at which a traced node starts
    prev,          \* the previous to_value call of the same process, if any
    da, db,        \* two drafts of one builder (unification laws)
    universe       \* which values the framework presents (fixed by Init)

vars == <<data, names, name_lists, schemas, schema_lists, field_lists, root,
          root_index, stack, phase, out, traced, starts, prev, da, db, universe>>

----------------------------------------------------------------------------
(* Bounds of the model. *)

\* Most nodes (serde events that open a value) in one traced value.
MaxNodes == 4
\* Most elements of the sequence of structs of the struct specifications.
MaxItems == 2
\* Deepest nesting of open composite serializers.
MaxDepth == 3
\* Most nodes of a value of the header specification.
MaxHeaderNodes == 3
\* Most fields of the wide struct of the skippable-struct specification.
MaxWide == 9
\* Most nodes of a draft in the unification specification.
MaxDraft == 5
\* Most elements of the heterogeneous sequence traced in two orders.
MaxPermute == 3
\* Most elements of the sequence of distinct enum variants.
MaxVariants == 257
\* Fields of the struct every field of which may be skipped.
MaxFields == 65
\* Most calls on the Pool of the pool specification.
MaxCalls == 4
\* Largest variant index and variant count looked up in the anonymous name table.
MaxIndex == 300

----------------------------------------------------------------------------
(* Numbers. *)

Max(a, b) == IF a > b THEN a ELSE b
Range(s) == {s[i] : i \in 1..Len(s)}

\* u32::to_le_bytes
to_le_bytes(n) ==
    <<n % 256, (n \div 256) % 256, (n \div 65536) % 256, (n \div 16777216) % 256>>

\* u32::from_le_bytes
from_le_bytes(b) == b[1] + 256 * b[2] + 65536 * b[3] + 16777216 * b[4]

\* std::iter::repeat_n(x, n)
Repeat(x, n) == [i \in 1..n |-> x]

\* Vec::sort_unstable followed by Vec::dedup, on naturals.
RECURSIVE Dedup(_)
\* Vec::dedup: consecutive equal elements collapse to one.  The two halves are
\* deduplicated and joined, dropping the repeat at the seam.
Dedup(s) ==
    IF Len(s) <= 1 THEN s
    ELSE LET mid == Len(s) \div 2
             left == Dedup(SubSeq(s, 1, mid))
             right == Dedup(SubSeq(s, mid + 1, Len(s)))
         IN  IF left[Len(left)] = right[1] THEN left \o Tail(right)
             ELSE left \o right

\* A variant of SortDedup that leaves the list as it is.
Unsorted(s) == s

\* sort_unstable(); dedup()
SortDedup(s) == Dedup(SortSeq(s, <))

----------------------------------------------------------------------------
(* Pool (interner): insertion ordered, value unique. *)

PoolFind(pool, v) == CHOOSE i \in 1..Len(pool) : pool[i] = v

\* A variant of intern that inserts without looking for the value.
intern_unchecked(pool, v) == [pool |-> Append(pool, v), index |-> Len(pool)]

\* Pool::intern (IndexSet::insert_full): the index of v, inserting it when absent.
intern(pool, v) ==
    IF \E i \in 1..Len(pool) : pool[i] = v
    THEN [pool |-> pool, index |-> PoolFind(pool, v) - 1]
    ELSE [pool |-> Append(pool, v), index |-> Len(pool)]

\* The owned value (Box<str>, Box<[T]>) made from borrowed or unboxed content:
\* ValueT::from(query), value.into().
From(content) == [boxed |-> content]

\* indexmap::Equivalent: the query denotes the stored value.
Equivalent(query, value) == value.boxed = query

\* Pool::intern_from: intern(value.into()).
intern_from(pool, value) == intern(pool, From(value))

\* Pool::intern_borrowed: get_full(query), else insert_full(query.into()).
intern_borrowed(pool, query) ==
    LET found == {i \in 1..Len(pool) : Equivalent(query, pool[i])}
    IN  IF found # {}
        THEN [pool |-> pool, index |-> (CHOOSE i \in found : TRUE) - 1]
        ELSE [pool |-> Append(pool, From(query)), index |-> Len(pool)]

----------------------------------------------------------------------------
(* SchemaBuilder: the draft.                                               *)

EmptyUnion == [k |-> "Union", alts |-> <<>>]
Leaf(kind) == [k |-> kind]
OptionSome(inner) == [k |-> "OptionSome", inner |-> inner]
Unit(name) == [k |-> "Unit", name |-> name]
Newtype(name, inner) == [k |-> "Newtype", name |-> name, inner |-> inner]
MapDraft(key, value) == [k |-> "Map", key |-> key, value |-> value]
Sequence(item) == [k |-> "Sequence", item |-> item]
UnionOf(alts) == [k |-> "Union", alts |-> alts]
Record(name, field_names, field_types, skippable, length) ==
    [k |-> "Record", name |-> name, field_names |-> field_names,
     field_types |-> field_types, skippable |-> skippable, length |-> length]

Ok(self) == [ok |-> TRUE, self |-> self]
Err(self, other) == [ok |-> FALSE, self |-> self, other |-> other]

RECURSIVE unify(_, _)
RECURSIVE union(_, _)
RECURSIVE add_to_nonempty_union(_, _)
RECURSIVE try_fold(_, _, _)
RECURSIVE add_all(_, _, _)
RECURSIVE union_zip(_, _, _)

\* A variant of unify_empty_union that keeps a one-alternative Union.
unify_empty_union_wrapped(self, right) == UnionOf(<<right>>)

\* The Union arm of unify, lefts empty: *self = right.
unify_empty_union(self, right) == right

\* A variant of same_record that also wants equal skippable lists.
same_record_and_skippable(self, other) ==
    <<self.name, self.field_names, self.length, self.skippable>>
        = <<other.name, other.field_names, other.length, other.skippable>>

\* A variant of extend_skippable that forgets the right skippable list.
extend_skippable_left(left_skippable, right_skippable) == left_skippable

\* A variant of extend_skippable without sort_unstable and dedup.
extend_skippable_unsorted(left_skippable, right_skippable) ==
    left_skippable \o right_skippable

\* A variant of union_zip that keeps the left field types.
union_zip_left(lefts, rights, i) == lefts

\* The Record arm's guard: (name, field_names, length) agree.
same_record(self, other) ==
    <<self.name, self.field_names, self.length>>
        = <<other.name, other.field_names, other.length>>

\* left_skippable.extend(right_skippable); sort_unstable(); dedup()
extend_skippable(left_skippable, right_skippable) ==
    SortDedup(left_skippable \o right_skippable)

\* SchemaBuilder::unify: Ok with the unified self, or Err giving `other` back.
unify(self, other) ==
    IF self.k = "Union" THEN
        IF self.alts = <<>>
        THEN Ok(unify_empty_union(self, other))
        ELSE Ok(UnionOf(add_to_nonempty_union(other, self.alts)))
    ELSE IF other.k = "Union" THEN
        unify(other, self)
    ELSE IF self.k = "Newtype" /\ other.k = "Newtype" THEN
        IF self.name = other.name
        THEN Ok(Newtype(self.name, union(self.inner, other.inner)))
        ELSE Err(self, other)
    ELSE IF self.k = "OptionSome" /\ other.k = "OptionSome" THEN
        Ok(OptionSome(union(self.inner, other.inner)))
    ELSE IF self.k = "Record" /\ other.k = "Record" THEN
        IF same_record(self, other)
        THEN Ok(Record(self.name, self.field_names,
                       union_zip(self.field_types, other.field_types, 1),
                       extend_skippable(self.skippable, other.skippable),
                       self.length))
        ELSE Err(self, other)
    ELSE IF self.k = "Map" /\ other.k = "Map" THEN
        Ok(MapDraft(union(self.key, other.key), union(self.value, other.value)))
    ELSE IF self.k = "Sequence" /\ other.k = "Sequence" THEN
        Ok(Sequence(union(self.item, other.item)))
    ELSE IF self = other THEN Ok(self)
    ELSE Err(self, other)

\* left_field_types.iter_mut().zip(right_field_types).for_each(union)
union_zip(lefts, rights, i) ==
    [j \in 1..Len(lefts) |->
        IF j >= i /\ j <= Len(rights) THEN union(lefts[j], rights[j]) ELSE lefts[j]]

\* SchemaBuilder::union
union(self, other) ==
    LET r == unify(self, other)
    IN  IF r.ok THEN r.self ELSE UnionOf(<<r.self, r.other>>)

\* A variant of try_fold that always extends lefts with right.
try_fold_extend(right, lefts, i) == Append(lefts, right)

\* lefts.iter_mut().try_fold(right, ...) followed by lefts.extend(right)
\* A variant of try_fold that tries the first left only.
try_fold_head(right, lefts, i) ==
    IF unify(lefts[1], right).ok
    THEN [lefts EXCEPT ![1] = unify(lefts[1], right).self]
    ELSE Append(lefts, right)

\* A failed unify leaves `left` as it was and hands `right` back unchanged, so
\* the fold stops at the first left, from i on, that unifies with right.
try_fold(right, lefts, i) ==
    LET hits == {j \in i..Len(lefts) : unify(lefts[j], right).ok}
    IN  IF hits = {} THEN Append(lefts, right)
        ELSE LET first == CHOOSE j \in hits : \A h \in hits : j <= h
             IN  [lefts EXCEPT ![first] = unify(lefts[first], right).self]

\* rights.into_iter().for_each(|right| right.add_to_nonempty_union(lefts))
add_all(rights, lefts, i) ==
    IF i > Len(rights) THEN lefts
    ELSE add_all(rights, add_to_nonempty_union(rights[i], lefts), i + 1)

\* SchemaBuilder::add_to_nonempty_union: the new lefts.
add_to_nonempty_union(self, lefts) ==
    IF self.k = "Union" THEN add_all(self.alts, lefts, 1)
    ELSE try_fold(self, lefts, 1)

----------------------------------------------------------------------------
(* Schema: the interned node, and SchemaBuilder::build.                    *)

\* The pools build writes to.
Pools(ss, sl, fl) == [schemas |-> ss, schema_lists |-> sl, field_lists |-> fl]

intern_schema(r, node) ==
    LET i == intern(r.schemas, node)
    IN  [r |-> [r EXCEPT !.schemas = i.pool], index |-> i.index]

\* A schema list that is handed an index but never stored.
intern_schema_list_unstored(r, list) == [r |-> r, index |-> Len(r.schema_lists)]

intern_schema_list(r, list) ==
    LET i == intern(r.schema_lists, list)
    IN  [r |-> [r EXCEPT !.schema_lists = i.pool], index |-> i.index]

intern_field_list(r, list) ==
    LET i == intern(r.field_lists, list)
    IN  [r |-> [r EXCEPT !.field_lists = i.pool], index |-> i.index]

IsEmptyUnion(d) == d.k = "Union" /\ d.alts = <<>>

\* skippable.retain(|&index| !matches!(&field_types[index], Union(v) if v.is_empty()))
retain_skippable(skippable, field_types) ==
    SelectSeq(skippable, LAMBDA index : ~IsEmptyUnion(field_types[index + 1]))

\* The node of a Record draft, once its field types and skip list are interned.
record_schema(name, field_names, length, skip_list, field_types) ==
    IF field_names = <<>> THEN
        IF name = <<>> THEN
            [k |-> "Tuple", length |-> length, list |-> field_types]
        ELSE IF Len(name) = 1 THEN
            [k |-> "TupleStruct", name |-> name[1], length |-> length,
             list |-> field_types]
        ELSE
            [k |-> "TupleVariant", name |-> name[1], variant |-> name[2],
             length |-> length, list |-> field_types]
    ELSE IF Len(name) = 1 THEN
        [k |-> "Struct", name |-> name[1], name_list |-> field_names[1],
         skip_list |-> skip_list, list |-> field_types]
    ELSE
        [k |-> "StructVariant", name |-> name[1], variant |-> name[2],
         name_list |-> field_names[1], skip_list |-> skip_list,
         list |-> field_types]

RECURSIVE build(_, _)
RECURSIVE build_all(_, _)

\* schemas.into_iter().map(|schema| schema.build(root)).collect()
\* The drafts are built left to right, each on the pools the one before it left:
\* the first half, then the second half on the pools of the first.
build_all(drafts, r) ==
    IF drafts = <<>> THEN [indices |-> <<>>, r |-> r]
    ELSE IF Len(drafts) = 1 THEN
        LET h == build(drafts[1], r)
        IN  [indices |-> <<h.index>>, r |-> h.r]
    ELSE LET mid == Len(drafts) \div 2
             left == build_all(SubSeq(drafts, 1, mid), r)
             right == build_all(SubSeq(drafts, mid + 1, Len(drafts)), left.r)
         IN  [indices |-> left.indices \o right.indices, r |-> right.r]

\* SchemaBuilder::build: the pools after interning the draft, and its index.
build(d, r) ==
    CASE d.k = "OptionSome" ->
        LET inner == build(d.inner, r)
        IN  intern_schema(inner.r, [k |-> "OptionSome", inner |-> inner.index])
      [] d.k = "Unit" ->
        IF d.name = <<>> THEN intern_schema(r, [k |-> "Unit"])
        ELSE IF Len(d.name) = 1
        THEN intern_schema(r, [k |-> "UnitStruct", name |-> d.name[1]])
        ELSE intern_schema(r, [k |-> "UnitVariant", name |-> d.name[1],
                                variant |-> d.name[2]])
      [] d.k = "Newtype" ->
        LET inner == build(d.inner, r)
        IN  IF Len(d.name) = 1
            THEN intern_schema(inner.r, [k |-> "NewtypeStruct", name |-> d.name[1],
                                         inner |-> inner.index])
            ELSE intern_schema(inner.r, [k |-> "NewtypeVariant", name |-> d.name[1],
                                         variant |-> d.name[2],
                                         inner |-> inner.index])
      [] d.k = "Map" ->
        LET key == build(d.key, r)
            value == build(d.value, key.r)
        IN  intern_schema(value.r, [k |-> "Map", key |-> key.index,
                                    value |-> value.index])
      [] d.k = "Sequence" ->
        LET item == build(d.item, r)
        IN  intern_schema(item.r, [k |-> "Sequence", item |-> item.index])
      [] d.k = "Union" ->
        LET built == build_all(d.alts, r)
            list == intern_schema_list(built.r, SortDedup(built.indices))
        IN  intern_schema(list.r, [k |-> "Union", list |-> list.index])
      [] d.k = "Record" ->
        LET skippable == retain_skippable(d.skippable, d.field_types)
            built == build_all(d.field_types, r)
            types == intern_schema_list(built.r, built.indices)
        IN  IF d.field_names = <<>>
            THEN intern_schema(types.r,
                     record_schema(d.name, d.field_names, d.length, 0, types.index))
            ELSE LET skips == intern_field_list(types.r, skippable)
                 IN  intern_schema(skips.r,
                         record_schema(d.name, d.field_names, d.length,
                                       skips.index, types.index))
      [] OTHER -> intern_schema(r, [k |-> d.k])

----------------------------------------------------------------------------
(* Anonymous variant names (anonymous_union.rs).                           *)

HEX == <<"0", "1", "2", "3", "4", "5", "6", "7",
         "8", "9", "a", "b", "c", "d", "e", "f">>

UNION_ENUM_NAME == "Union"

UNION_ENUM_VARIANT_NAMES ==
    [i \in 1..256 |-> "_" \o HEX[((i - 1) \div 16) + 1] \o HEX[((i - 1) % 16) + 1]]

MAX_UNION_ENUM_VARIANTS == Len(UNION_ENUM_VARIANT_NAMES)

\* ErrorT::custom(message): an error of the sink's (or source's) own error type.
Custom(message) == [error |-> "Custom", message |-> message]

\* serialized_anonymous_variant: the name, or a custom error of the sink.
serialized_anonymous_variant(i_variant) ==
    IF i_variant < Len(UNION_ENUM_VARIANT_NAMES)
    THEN [ok |-> TRUE, name |-> UNION_ENUM_VARIANT_NAMES[i_variant + 1]]
    ELSE [ok |-> FALSE, error |-> Custom("too many union variants")]

\* A variant of deserialized_anonymous_variants that refuses the whole table.
deserialized_anonymous_variants_below(num_variants) ==
    IF num_variants < Len(UNION_ENUM_VARIANT_NAMES)
    THEN [ok |-> TRUE, variants |-> SubSeq(UNION_ENUM_VARIANT_NAMES, 1, num_variants)]
    ELSE [ok |-> FALSE, error |-> Custom("too many union variants")]

\* deserialized_anonymous_variants: the first num_variants names
\* (split_at_checked), or a custom error of the source.
deserialized_anonymous_variants(num_variants) ==
    IF num_variants <= Len(UNION_ENUM_VARIANT_NAMES)
    THEN [ok |-> TRUE, variants |-> SubSeq(UNION_ENUM_VARIANT_NAMES, 1, num_variants)]
    ELSE [ok |-> FALSE, error |-> Custom("too many union variants")]

----------------------------------------------------------------------------
(* The trace tape (trace.rs).                                              *)

\* A variant of ALL with Map and Sequence in each other's place.
ALL_swapped == <<"Bool", "I8", "I16", "I32", "I64", "I128",
                 "U8", "U16", "U32", "U64", "U128",
                 "F32", "F64", "Char", "String", "Bytes",
                 "OptionNone", "OptionSome",
                 "Unit", "UnitStruct", "UnitVariant",
                 "NewtypeStruct", "NewtypeVariant",
                 "Sequence", "Map",
                 "Tuple", "TupleStruct", "TupleVariant",
                 "Struct", "StructVariant">>

\* TraceNodeKind::ALL: the kinds by kind byte.
ALL == <<"Bool", "I8", "I16", "I32", "I64", "I128",
         "U8", "U16", "U32", "U64", "U128",
         "F32", "F64", "Char", "String", "Bytes",
         "OptionNone", "OptionSome",
         "Unit", "UnitStruct", "UnitVariant",
         "NewtypeStruct", "NewtypeVariant",
         "Map", "Sequence",
         "Tuple", "TupleStruct", "TupleVariant",
         "Struct", "StructVariant">>

\* enum TraceNodeKind, #[repr(u8)], Bool = 0 and every further variant one more
\* than the one declared before it.
TraceNodeKind == <<"Bool",
                   "I8", "I16", "I32", "I64", "I128",
                   "U8", "U16", "U32", "U64", "U128",
                   "F32", "F64", "Char",
                   "String", "Bytes",
                   "OptionNone", "OptionSome",
                   "Unit", "UnitStruct", "UnitVariant",
                   "NewtypeStruct", "NewtypeVariant",
                   "Map", "Sequence",
                   "Tuple", "TupleStruct", "TupleVariant",
                   "Struct", "StructVariant">>

\* From<TraceNodeKind> for u8: `value as u8`, the discriminant.
KindByte(kind) == (CHOOSE i \in 1..Len(TraceNodeKind) : TraceNodeKind[i] = kind) - 1

\* TryFrom<u8> for TraceNodeKind: ALL.get(value).copied().ok_or(value)
TryFrom_u8(value) ==
    IF value < Len(ALL) THEN [ok |-> TRUE, kind |-> ALL[value + 1]]
    ELSE [ok |-> FALSE, error |-> value]

\* Bytes of the fixed-width leaf payloads.
LeafWidth(kind) ==
    CASE kind \in {"Bool", "I8", "U8"} -> 1
      [] kind \in {"I16", "U16"} -> 2
      [] kind \in {"I32", "U32", "F32", "Char"} -> 4
      [] kind \in {"I64", "U64", "F64"} -> 8
      [] kind \in {"I128", "U128"} -> 16

Signed(kind) == kind \in {"I8", "I16", "I32", "I64", "I128"}

RECURSIVE le_bytes(_, _)
\* to_le_bytes of an unsigned value on `width` bytes.
le_bytes(n, width) ==
    IF width = 0 THEN <<>> ELSE <<n % 256>> \o le_bytes(n \div 256, width - 1)

RECURSIVE le_value(_)
le_value(bytes) ==
    IF bytes = <<>> THEN 0 ELSE bytes[1] + 256 * le_value(Tail(bytes))

\* `value as u8`, value.to_le_bytes(): two's complement on the kind's width.
leaf_bytes(kind, value) ==
    LET width == LeafWidth(kind)
    IN  le_bytes(IF value < 0 THEN value + 2 ^ (8 * width) ELSE value, width)

\* pop_bool, pop_i8 ... pop_f64: the value of the payload bytes.
leaf_value(kind, bytes) ==
    LET n == le_value(bytes)
        width == LeafWidth(kind)
    IN  IF kind = "Bool" THEN (IF n # 0 THEN 1 ELSE 0)
        ELSE IF Signed(kind) /\ n >= 2 ^ (8 * width - 1) THEN n - 2 ^ (8 * width)
        ELSE n

\* Whether `n` more bytes can be popped at position pos (1-based).
Avail(tape, pos, n) == pos + n - 1 <= Len(tape)

pop_u32(tape, pos) == from_le_bytes(SubSeq(tape, pos, pos + 3))

\* Number of u32 words of a node's header after the kind byte.
HeaderWords(kind) ==
    CASE kind \in {"UnitStruct", "NewtypeStruct", "Tuple"} -> 1
      [] kind \in {"UnitVariant", "NewtypeVariant", "TupleStruct", "Struct"} -> 2
      [] kind \in {"TupleVariant", "StructVariant"} -> 3
      [] OTHER -> 0

\* ReadTraceExt::pop_trace_node: the TraceNode at pos and the position after
\* its header; not ok where the code panics (no byte, unknown kind byte).
pop_trace_node(tape, pos) ==
    IF ~Avail(tape, pos, 1) THEN [ok |-> FALSE]
    ELSE IF tape[pos] >= Len(ALL) THEN [ok |-> FALSE]
    ELSE
        LET kind == ALL[tape[pos] + 1]
            w(i) == pop_u32(tape, pos + 1 + 4 * (i - 1))
            after == pos + 1 + 4 * HeaderWords(kind)
        IN  IF ~Avail(tape, pos + 1, 4 * HeaderWords(kind)) THEN [ok |-> FALSE]
            ELSE [ok |-> TRUE, pos |-> after,
                  node |->
                    CASE kind \in {"UnitStruct", "NewtypeStruct"} ->
                            [k |-> kind, name |-> w(1)]
                      [] kind \in {"UnitVariant", "NewtypeVariant"} ->
                            [k |-> kind, name |-> w(1), variant |-> w(2)]
                      [] kind = "Tuple" ->
                            [k |-> kind, length |-> w(1)]
                      [] kind = "TupleStruct" ->
                            [k |-> kind, length |-> w(1), name |-> w(2)]
                      [] kind = "TupleVariant" ->
                            [k |-> kind, length |-> w(1), name |-> w(2),
                             variant |-> w(3)]
                      [] kind = "Struct" ->
                            [k |-> kind, name |-> w(1), name_list |-> w(2)]
                      [] kind = "StructVariant" ->
                            [k |-> kind, name |-> w(1), variant |-> w(2),
                             name_list |-> w(3)]
                      [] OTHER -> [k |-> kind]]

RECURSIVE words(_)
\* presence.chunks_exact(4).map(u32::from_le_bytes)
words(bytes) ==
    IF Len(bytes) < 4 THEN <<>>
    ELSE <<from_le_bytes(SubSeq(bytes, 1, 4))>> \o words(SubSeq(bytes, 5, Len(bytes)))

\* iter_field_indices
iter_field_indices(presence) == words(presence)

----------------------------------------------------------------------------
(* Emission: ValueCursor (ser.rs).  The sink is a non-self-describing      *)
(* encoder that serializes every value handed to it at once; what it is    *)
(* driven with is recorded as a sequence of events.  An emission result is *)
(* [st, tail, ev]: st is "ok", "panic" (the code aborts) or "error" (a     *)
(* custom error of the sink), tail the position of the shared tape cursor. *)

RootSchema(ss, ns, nl, sl, fl) ==
    [schemas |-> ss, names |-> ns, name_lists |-> nl, schema_lists |-> sl,
     field_lists |-> fl]

schema(R, index) == R.schemas[index + 1]
schema_list(R, index) == R.schema_lists[index + 1]
field_list(R, index) == R.field_lists[index + 1]
name_list(R, index) == R.name_lists[index + 1]

Emitted(st, tail, ev) == [st |-> st, tail |-> tail, ev |-> ev]

\* An emission the sink's `?` ended with an error value.
Failed(error, tail, ev) == [st |-> "error", tail |-> tail, ev |-> ev, error |-> error]

EvLeaf(kind, v) == [e |-> "leaf", kind |-> kind, v |-> v]
EvStr(v) == [e |-> "str", v |-> v]
EvBytes(v) == [e |-> "bytes", v |-> v]
EvUnit == [e |-> "unit"]
EvSeq(len) == [e |-> "seq", len |-> len]
EvMap(len) == [e |-> "map", len |-> len]
EvTuple(len) == [e |-> "tuple", len |-> len]
EvEnd == [e |-> "end"]
EvNewtypeVariant(name, index, variant) ==
    [e |-> "newtype_variant", name |-> name, index |-> index, variant |-> variant]
EvTupleVariant(name, index, variant, len) ==
    [e |-> "tuple_variant", name |-> name, index |-> index, variant |-> variant,
     len |-> len]

\* str::from_utf8 accepts the payload (the traced strings are ASCII).
ValidUtf8(bytes) == \A i \in 1..Len(bytes) : bytes[i] < 128

\* char::try_from(u32) accepts the scalar.
ValidChar(n) == n < 55296 \/ (n >= 57344 /\ n <= 1114111)

\* ValueCursor::check on (trace, schema), the arms that are not Union.
check_simple(trace, node) ==
    CASE node.k \in {"Bool", "I8", "I16", "I32", "I64", "I128", "U8", "U16", "U32",
                     "U64", "U128", "F32", "F64", "Char", "String", "Bytes",
                     "OptionNone", "OptionSome", "Unit", "Map", "Sequence"} ->
            trace.k = node.k
      [] node.k \in {"UnitStruct", "NewtypeStruct"} ->
            trace.k = node.k /\ trace.name = node.name
      [] node.k \in {"UnitVariant", "NewtypeVariant"} ->
            trace.k = node.k /\ <<trace.name, trace.variant>> = <<node.name, node.variant>>
      [] node.k = "Tuple" ->
            trace.k = node.k /\ trace.length = node.length
      [] node.k = "TupleStruct" ->
            trace.k = node.k /\ <<trace.length, trace.name>> = <<node.length, node.name>>
      [] node.k = "TupleVariant" ->
            trace.k = node.k
            /\ <<trace.length, trace.name, trace.variant>>
                   = <<node.length, node.name, node.variant>>
      [] node.k = "Struct" ->
            trace.k = node.k
            /\ <<trace.name, trace.name_list>> = <<node.name, node.name_list>>
      [] node.k = "StructVariant" ->
            trace.k = node.k
            /\ <<trace.name, trace.variant, trace.name_list>>
                   = <<node.name, node.variant, node.name_list>>
      [] OTHER -> FALSE

Cursor(node, trace, pos) == [schema |-> node, trace |-> trace, data |-> pos]

\* find_position: the first position (from 0) of `list` satisfying Test.
find_position(list, Test(_)) ==
    LET hits == {i \in 1..Len(list) : Test(list[i])}
    IN  IF hits = {} THEN <<>>
        ELSE <<(CHOOSE i \in hits : \A j \in hits : i <= j) - 1>>

\* A variant of discriminated that always reports the first alternative.
discriminated_as_first(discriminant, variant) ==
    EvNewtypeVariant(UNION_ENUM_NAME, 0, variant)

\* finish_serialize, the Discriminated arm: the synthesized newtype variant.
discriminated(discriminant, variant) ==
    EvNewtypeVariant(UNION_ENUM_NAME, discriminant, variant)

\* A variant of shift_variant that keeps the low byte.
shift_variant_none(variant) == variant

\* SkippableStructSerializer::serialize: `self.variant >> 8`
shift_variant(variant) == variant \div 256

RECURSIVE check(_, _)
\* ValueCursor::check: None is [some |-> FALSE]; Simple has disc = <<>>;
\* Discriminated(d, child) has disc = <<d>>.
check(R, cur) ==
    IF cur.schema.k = "Union" THEN
        LET list == schema_list(R, cur.schema.list)
            child(index) == Cursor(schema(R, index), cur.trace, cur.data)
            found == find_position(list, LAMBDA index : check(R, child(index)).some)
        IN  IF found = <<>> THEN [some |-> FALSE]
            ELSE [some |-> TRUE, disc |-> found,
                  child |-> child(list[found[1] + 1])]
    ELSE IF check_simple(cur.trace, cur.schema)
         THEN [some |-> TRUE, disc |-> <<>>]
         ELSE [some |-> FALSE]

RECURSIVE drop_greater(_, _, _)

\* A variant of drop_greater that drops nothing.
drop_greater_never(presence, j, skip) == j

\* variant_from_presence, the inner `while let` loop: the presence position left
\* after dropping the entries greater than skip (0: none left).
drop_greater(presence, j, skip) ==
    IF j = 0 THEN 0
    ELSE IF presence[j] > skip THEN drop_greater(presence, j - 1, skip)
    ELSE j

RECURSIVE variant_loop(_, _, _, _, _)
\* The `for &skip in skip_list.iter().rev()` loop.  variant is a u64: a skip
\* list has at most MaxWide (< 31) entries here, so `variant << 1` loses no bit,
\* or more than 64, and then the variant is never looked at.
variant_loop(skip_list, presence, i, j, variant) ==
    IF i = 0 THEN variant
    ELSE LET shifted == variant * 2
             jj == drop_greater(presence, j, skip_list[i])
         IN  IF jj > 0 /\ presence[jj] = skip_list[i]
             THEN variant_loop(skip_list, presence, i - 1, jj - 1, shifted + 1)
             ELSE variant_loop(skip_list, presence, i - 1, jj, shifted)

\* variant_from_presence(skip_list, presence), presence as field indices.
variant_from_presence(skip_list, presence) ==
    variant_loop(skip_list, presence, Len(skip_list), Len(presence), 0)

RECURSIVE serialize(_, _, _)
RECURSIVE finish_serialize(_, _, _, _)
RECURSIVE serialize_children(_, _, _, _, _, _, _)
RECURSIVE ValueCursor_serialize_struct(_, _, _, _, _, _)
RECURSIVE SkippableStructSerializer(_, _, _, _, _, _, _)

\* ValueCursor::pop_child: the child cursor, or not ok where the pop panics.
pop_child(R, tape, index, tail) ==
    LET popped == pop_trace_node(tape, tail)
    IN  IF popped.ok
        THEN [ok |-> TRUE, cur |-> Cursor(schema(R, index), popped.node, popped.pos)]
        ELSE [ok |-> FALSE]

\* `for ... { serializer.serialize_element(&self.pop_child(schema))? }`:
\* children i..n, child c under schema list[((c - 1) % Len(list)) + 1].
\* The loop over i..n is the loop over its first half followed, when that
\* ended "ok", by the loop over its second half from the tail it reached.
serialize_children(R, tape, list, i, n, tail, ev) ==
    IF i > n THEN Emitted("ok", tail, ev)
    ELSE IF i = n THEN
        LET index == list[((i - 1) % Len(list)) + 1]
            child == pop_child(R, tape, index, tail)
        IN  IF ~child.ok THEN Emitted("panic", tail, ev)
            ELSE LET done == serialize(R, tape, child.cur)
                 IN  [done EXCEPT !.ev = ev \o @]
    ELSE LET mid == (i + n) \div 2
             first == serialize_children(R, tape, list, i, mid, tail, ev)
         IN  IF first.st # "ok" THEN first
             ELSE serialize_children(R, tape, list, mid + 1, n, first.tail, first.ev)

\* Closes a composite: the end() call of the sink's compound serializer.
Closed(done) ==
    IF done.st = "ok" THEN Emitted("ok", done.tail, Append(done.ev, EvEnd)) ELSE done

\* SkippableStructSerializer::serialize; presence as field indices.
SkippableStructSerializer(R, tape, presence, variant, skip_list, schemas_, tail) ==
    IF Len(skip_list) > 64 THEN Emitted("panic", tail, <<>>)
    ELSE
        LET index == variant % 256
            name == serialized_anonymous_variant(index)
        IN  IF ~name.ok THEN Failed(name.error, tail, <<>>)
            ELSE IF Len(skip_list) <= 8 THEN
                IF \E i \in 1..Len(presence) : presence[i] >= Len(schemas_)
                THEN Emitted("panic", tail,
                             <<EvTupleVariant(UNION_ENUM_NAME, index, name.name,
                                              Len(presence))>>)
                ELSE Closed(serialize_children(R, tape,
                         [i \in 1..Len(presence) |-> schemas_[presence[i] + 1]],
                         1, Len(presence), tail,
                         <<EvTupleVariant(UNION_ENUM_NAME, index, name.name,
                                          Len(presence))>>))
            ELSE
                LET inner == SkippableStructSerializer(R, tape, presence,
                                 shift_variant(variant),
                                 SubSeq(skip_list, 9, Len(skip_list)), schemas_, tail)
                IN  [inner EXCEPT !.ev =
                        <<EvNewtypeVariant(UNION_ENUM_NAME, index, name.name)>> \o @]

\* ValueCursor::serialize_struct
ValueCursor_serialize_struct(R, tape, names_, skips_, types_, tail) ==
    LET skip_list == field_list(R, skips_)
        schemas_ == schema_list(R, types_)
        nlist == name_list(R, names_)
    IN  IF ~Avail(tape, tail, 4) THEN Emitted("panic", tail, <<>>)
        ELSE
            LET length == pop_u32(tape, tail)
            IN  IF ~Avail(tape, tail + 4, 4 * length) THEN Emitted("panic", tail, <<>>)
                ELSE IF Len(nlist) # Len(schemas_) THEN Emitted("panic", tail, <<>>)
                ELSE
                    LET presence == iter_field_indices(
                                        SubSeq(tape, tail + 4, tail + 3 + 4 * length))
                        after == tail + 4 + 4 * length
                    IN  IF skip_list = <<>>
                        THEN Closed(serialize_children(R, tape, schemas_, 1,
                                        Len(schemas_), after,
                                        <<EvTuple(Len(schemas_))>>))
                        ELSE SkippableStructSerializer(R, tape, presence,
                                 variant_from_presence(skip_list, presence),
                                 skip_list, schemas_, after)

\* ValueCursor::serialize_tuple
ValueCursor_serialize_tuple(R, tape, schema_length, types_, tail) ==
    LET schemas_ == schema_list(R, types_)
    IN  IF Len(schemas_) # schema_length THEN Emitted("panic", tail, <<>>)
        ELSE Closed(serialize_children(R, tape, schemas_, 1, schema_length, tail,
                                       <<EvTuple(schema_length)>>))

\* ValueCursor::finish_serialize; tail stands at cur.data.
finish_serialize(R, tape, cur, checked) ==
    LET node == cur.schema
        tail == cur.data
    IN
    IF checked.disc # <<>> THEN
        LET name == serialized_anonymous_variant(checked.disc[1])
        IN  IF ~name.ok THEN Failed(name.error, tail, <<>>)
            ELSE LET payload == serialize(R, tape, checked.child)
                 IN  [payload EXCEPT !.ev =
                         <<discriminated(checked.disc[1], name.name)>> \o @]
    ELSE IF node.k \in {"Bool", "I8", "I16", "I32", "I64", "I128", "U8", "U16",
                        "U32", "U64", "U128", "F32", "F64", "Char"} THEN
        LET width == LeafWidth(node.k)
        IN  IF ~Avail(tape, tail, width) THEN Emitted("panic", tail, <<>>)
            ELSE LET bytes == SubSeq(tape, tail, tail + width - 1)
                 IN  IF node.k = "Char" /\ ~ValidChar(le_value(bytes))
                     THEN Emitted("panic", tail + width, <<>>)
                     ELSE Emitted("ok", tail + width,
                                  <<EvLeaf(node.k, leaf_value(node.k, bytes))>>)
    ELSE IF node.k \in {"String", "Bytes"} THEN
        IF ~Avail(tape, tail, 4) THEN Emitted("panic", tail, <<>>)
        ELSE LET length == pop_u32(tape, tail)
             IN  IF ~Avail(tape, tail + 4, length) THEN Emitted("panic", tail + 4, <<>>)
                 ELSE LET bytes == SubSeq(tape, tail + 4, tail + 3 + length)
                      IN  IF node.k = "Bytes"
                          THEN Emitted("ok", tail + 4 + length, <<EvBytes(bytes)>>)
                          ELSE IF ValidUtf8(bytes)
                          THEN Emitted("ok", tail + 4 + length, <<EvStr(bytes)>>)
                          ELSE Emitted("panic", tail + 4 + length, <<>>)
    ELSE IF node.k \in {"Unit", "UnitStruct", "UnitVariant", "OptionNone"} THEN
        Emitted("ok", tail, <<EvUnit>>)
    ELSE IF node.k \in {"OptionSome", "NewtypeStruct", "NewtypeVariant"} THEN
        serialize_children(R, tape, <<node.inner>>, 1, 1, tail, <<>>)
    ELSE IF node.k = "Map" THEN
        IF ~Avail(tape, tail, 4) THEN Emitted("panic", tail, <<>>)
        ELSE LET length == pop_u32(tape, tail)
             IN  Closed(serialize_children(R, tape, <<node.key, node.value>>, 1,
                                           2 * length, tail + 4, <<EvMap(length)>>))
    ELSE IF node.k = "Sequence" THEN
        IF ~Avail(tape, tail, 4) THEN Emitted("panic", tail, <<>>)
        ELSE LET length == pop_u32(tape, tail)
             IN  Closed(serialize_children(R, tape, <<node.item>>, 1, length,
                                           tail + 4, <<EvSeq(length)>>))
    ELSE IF node.k \in {"Tuple", "TupleStruct", "TupleVariant"} THEN
        ValueCursor_serialize_tuple(R, tape, node.length, node.list, tail)
    ELSE IF node.k \in {"Struct", "StructVariant"} THEN
        ValueCursor_serialize_struct(R, tape, node.name_list, node.skip_list, node.list, tail)
    ELSE Emitted("panic", tail, <<>>)

\* impl Serialize for ValueCursor: tail.set(self.data), check, finish_serialize.
serialize(R, tape, cur) ==
    LET checked == check(R, cur)
    IN  IF ~checked.some THEN Emitted("panic", cur.data, <<>>)
        ELSE finish_serialize(R, tape, cur, checked)

\* impl Serialize for Value, the (root_index, cursor) part: ValueCursor::start
\* pops the root node and the sink serializes the cursor.
Value_serialize(R, tape, index) ==
    LET start == pop_child(R, tape, index, 1)
    IN  IF ~start.ok THEN Emitted("panic", 1, <<>>)
        ELSE serialize(R, tape, start.cur)

----------------------------------------------------------------------------
(* RootSchemaBuilder: the tape writers (builder.rs).  TraceIndex is a      *)
(* 0-based offset into data.                                               *)

\* push_trace
push_trace(tape, kind) == Append(tape, KindByte(kind))

\* push_u32, push_u32_length
push_u32(tape, integer) == tape \o to_le_bytes(integer)

\* reserve_bytes: `size` placeholder bytes (!0); the index is the old length.
reserve_bytes(tape, size) == tape \o Repeat(255, size)

\* fill_reserved_bytes: data[index..][..bytes.len()].copy_from_slice(bytes)
fill_reserved_bytes(tape, index, bytes) ==
    [i \in 1..Len(tape) |->
        IF i > index /\ i <= index + Len(bytes) THEN bytes[i - index] ELSE tape[i]]

\* A variant of write_field_presence that numbers the fields from 1.
write_field_presence_from_one(tape, index, field) ==
    fill_reserved_bytes(tape, index, to_le_bytes(field + 1))

\* write_field_presence: the filled tape (the next slot is index + 4)
write_field_presence(tape, index, field) ==
    fill_reserved_bytes(tape, index, to_le_bytes(field))

\* push_length_bytes
push_length_bytes(tape, bytes) == push_u32(tape, Len(bytes)) \o bytes

\* push_struct_name: names after interning, the tape, the TypeName
push_struct_name(pool, tape, name) ==
    LET n == intern(pool, name)
    IN  [names |-> n.pool, data |-> push_u32(tape, n.index), type_name |-> <<n.index>>]

\* push_variant_name
push_variant_name(pool, tape, name, variant) ==
    LET n == intern(pool, name)
        v == intern(n.pool, variant)
    IN  [names |-> v.pool, data |-> push_u32(push_u32(tape, n.index), v.index),
         type_name |-> <<n.index, v.index>>]

\* push_struct_name or push_variant_name, by the presence of a variant
push_type_name(pool, tape, name, variant) ==
    IF variant = <<>> THEN push_struct_name(pool, tape, name)
    ELSE push_variant_name(pool, tape, name, variant[1])

----------------------------------------------------------------------------
(* The values the framework presents.  A presented value is recorded as a  *)
(* tree: [t |-> kind, ...]; a struct's field is [key, present, value].      *)

VLeaf(kind, v) == [t |-> kind, v |-> v]
VPlain(kind) == [t |-> kind]
VNamed(kind, name, variant) == [t |-> kind, name |-> name, variant |-> variant]
VSome(inner) == [t |-> "Some", inner |-> inner]
VNewtype(name, variant, inner) ==
    [t |-> "Newtype", name |-> name, variant |-> variant, inner |-> inner]
VSeq(items) == [t |-> "Seq", items |-> items]
VMap(items) == [t |-> "Map", items |-> items]
VTuple(name, variant, items) ==
    [t |-> "Tuple", name |-> name, variant |-> variant, items |-> items]
VStruct(name, variant, fields) ==
    [t |-> "Struct", name |-> name, variant |-> variant, fields |-> fields]
VField(key, value) == [key |-> key, present |-> TRUE, value |-> value]
VSkipped(key) == [key |-> key, present |-> FALSE]

\* Field keys of the wide struct: "f0", "f1", ...
DIGITS == <<"0", "1", "2", "3", "4", "5", "6", "7", "8", "9">>
WideKey(i) == "f" \o (IF i < 10 THEN DIGITS[i + 1]
                      ELSE DIGITS[(i \div 10) + 1] \o DIGITS[(i % 10) + 1])
WideKeys == [i \in 1..MaxWide |-> WideKey(i - 1)]
FieldKeys == [i \in 1..MaxFields |-> WideKey(i - 1)]

\* Variant names of the stress enum: "V000", "V001", ...
VariantName(i) ==
    "V" \o DIGITS[(i \div 100) + 1] \o DIGITS[((i \div 10) % 10) + 1] \o DIGITS[(i % 10) + 1]

\* The innermost open serializer is a struct / a sequence / of kind f.
InStruct == stack # <<>> /\ stack[Len(stack)].f = "struct"
InSeq == stack # <<>> /\ stack[Len(stack)].f = "seq"
Inside(f) == stack # <<>> /\ stack[Len(stack)].f = f

\* Most nodes and most sequence elements of a traced value.
NodeBound ==
    CASE universe \in {"struct", "declared"} -> 1 + 3 * MaxItems
      [] universe = "wide" -> 1 + MaxItems * (MaxWide + 1)
      [] universe \in {"permute", "described", "concurrent"} -> 1 + 2 * MaxPermute
      [] universe = "enum" -> 1 + 3 * MaxVariants
      [] universe = "fields" -> 1 + MaxItems * (MaxFields + 1)
      [] universe = "arity" -> 1 + 3 * MaxItems
      [] universe = "header" -> MaxHeaderNodes
      [] OTHER -> MaxNodes
ItemBound ==
    CASE universe \in {"struct", "wide", "fields", "arity", "declared"} -> MaxItems
      [] universe \in {"permute", "described", "concurrent"} -> MaxPermute
      [] universe = "enum" -> MaxVariants
      [] OTHER -> MaxNodes

\* (kind, value) of the fn_serialize_as_u8 leaves presented.
U8Leaves ==
    CASE universe = "main" -> {<<"Bool", 1>>, <<"I8", -1>>}
      [] universe = "struct" /\ InStruct -> {<<"U8", 1>>, <<"U8", 2>>}
      [] universe \in {"wide", "fields"} /\ InStruct -> {<<"U8", 7>>}
      [] universe \in {"permute", "described", "concurrent"} /\ stack # <<>> ->
            {<<"Bool", 1>>, <<"U8", 2>>}
      [] universe = "arity" /\ Inside("tuple") -> {<<"Bool", 1>>, <<"U8", 2>>}
      [] universe = "declared" /\ InStruct -> {<<"U8", 1>>}
      [] universe = "header" -> {<<"Bool", 1>>, <<"I8", -1>>, <<"U8", 200>>}
      [] OTHER -> {}

\* (kind, value) of the fn_serialize_as_le_bytes leaves presented.
LeLeaves ==
    CASE universe = "main" -> {<<"U32", 258>>, <<"I16", -2>>}
      [] universe = "enum" /\ Inside("newtype") -> {<<"U32", 1>>}
      [] universe = "declared" /\ InStruct -> {<<"U32", 258>>}
      [] universe = "header" ->
            {<<"I16", -2>>, <<"I32", 3>>, <<"I64", 3>>, <<"I128", 3>>,
             <<"U16", 258>>, <<"U32", 258>>, <<"U64", 258>>, <<"U128", 258>>,
             <<"F32", 1>>, <<"F64", 1>>}
      [] OTHER -> {}

Chars == IF universe \in {"main", "header"} THEN {99} ELSE {}
Strs == IF universe \in {"main", "header"} THEN {<<>>, <<104, 105>>} ELSE {}
ByteStrs == IF universe \in {"main", "header"} THEN {<<0, 200>>} ELSE {}
UnitStructs == IF universe \in {"main", "header"} THEN {"A"} ELSE {}
UnitVariants == IF universe \in {"main", "header"} THEN {<<"E", "U">>} ELSE {}
NewtypeStructs == IF universe \in {"main", "header"} THEN {"N"} ELSE {}
\* In the stress enum, element i of the sequence is Some(Enum::V<i>(1)).
NewtypeVariants ==
    CASE universe \in {"main", "header"} -> {<<"E", "V">>, <<"E", "W">>}
      [] universe = "enum" /\ Inside("some") ->
            {<<"Enum", VariantName(stack[1].length - 1)>>}
      [] OTHER -> {}

\* (name, variant, len) of the tuples presented.
Tuples ==
    CASE universe \in {"main", "header"} ->
            {<<"", <<>>, 1>>, <<"", <<>>, 2>>, <<"T", <<>>, 2>>, <<"E", <<"X">>, 1>>}
      [] universe = "arity" /\ ~Inside("tuple") ->
            {<<"", <<>>, 2>>, <<"T", <<>>, 2>>, <<"E", <<"X">>, 2>>}
      [] OTHER -> {}

\* (name, variant, keys) of the struct types presented.
StructTypes ==
    CASE universe \in {"main", "header"} ->
            {<<"S", <<>>, <<"a", "b">>>>, <<"E", <<"Y">>, <<"a">>>>}
      [] universe \in {"struct", "declared"} /\ ~InStruct ->
            {<<"S", <<>>, <<"a", "b">>>>}
      [] universe = "wide" /\ InSeq -> {<<"W", <<>>, WideKeys>>}
      [] universe = "fields" /\ InSeq -> {<<"K", <<>>, FieldKeys>>}
      [] OTHER -> {}

\* Whether a sequence may be presented here.
Seqs ==
    CASE universe \in {"main", "header"} -> {TRUE}
      [] universe \in {"struct", "wide", "permute", "enum", "fields", "arity",
                        "described", "concurrent", "declared"}
            /\ stack = <<>> ->
            {TRUE}
      [] OTHER -> {}
Maps ==
    CASE universe \in {"main", "header"} -> {TRUE}
      [] universe = "map" /\ stack = <<>> -> {TRUE}
      [] OTHER -> {}
Options ==
    CASE universe \in {"main", "header"} -> {TRUE}
      [] universe \in {"permute", "described", "concurrent"} /\ InSeq -> {TRUE}
      [] universe = "enum" /\ InSeq
            /\ (stack[1].gv = <<>> \/ stack[1].gv[Len(stack[1].gv)].t # "None") -> {TRUE}
      [] OTHER -> {}

\* The sets of (0-based) fields a value of the struct type may skip.
SkipPlans(keys) ==
    CASE universe = "wide" /\ InSeq /\ stack[Len(stack)].length = 0 ->
            {{}, 0..(Len(keys) - 1),
             {i \in 0..(Len(keys) - 1) : i % 2 = 0},
             {i \in 0..(Len(keys) - 1) : i % 3 = 1}}
      [] universe = "fields" -> {{}, 0..(Len(keys) - 1)}
      [] OTHER -> SUBSET (0..(Len(keys) - 1))

\* The `len` a struct's Serialize impl passes to serialize_struct.  Derived impls
\* pass the number of fields they will present; those of the declared-length
\* specification pass any number up to the number of fields of the struct.
DeclaredLengths(keys, skip) ==
    IF universe = "declared" THEN 0..Len(keys)
    ELSE {Len(keys) - Cardinality(skip)}

----------------------------------------------------------------------------
(* The open serializers.  A frame is one of                                *)
(*   "some" / "newtype"  serialize_some, serialize_newtype_*: one child    *)
(*   "seq"     SequenceSchemaBuilder                                       *)
(*   "map"     MapSchemaBuilder                                            *)
(*   "tuple"   TupleSchemaBuilder                                          *)
(*   "struct"  StructSchemaBuilder                                         *)
(* `due` counts the children the framework still owes the frame and `gv`   *)
(* holds the children presented so far.                                    *)

Top == stack[Len(stack)]
Rest == SubSeq(stack, 1, Len(stack) - 1)

RECURSIVE Due(_)
Due(stk) == IF stk = <<>> THEN 0 ELSE stk[Len(stk)].due + Due(SubSeq(stk, 1, Len(stk) - 1))

\* The frame may take a child now.
Accepting(frame) ==
    CASE frame.f \in {"some", "newtype"} -> frame.due = 1
      [] frame.f = "seq" -> frame.length < ItemBound
      [] frame.f = "map" -> TRUE
      [] frame.f = "tuple" -> frame.due > 0
      [] frame.f = "struct" -> frame.awaiting

\* The frame once a child has been started in it (serialize_element and
\* serialize_key count the child before serializing it).
Started(frame) ==
    CASE frame.f = "seq" -> [frame EXCEPT !.length = @ + 1]
      [] frame.f = "map" ->
            IF frame.due = 0 THEN [frame EXCEPT !.due = 1, !.length = @ + 1]
            ELSE [frame EXCEPT !.due = 0]
      [] frame.f = "struct" -> [frame EXCEPT !.due = @ - 1, !.awaiting = FALSE]
      [] OTHER -> [frame EXCEPT !.due = @ - 1]

StartedStack == IF stack = <<>> THEN <<>> ELSE Append(Rest, Started(Top))

\* A value with `owed` mandatory children may start here.
CanStart(owed) ==
    /\ phase = "trace"
    /\ traced = <<>>
    /\ stack # <<>> => Accepting(Top)
    /\ Len(starts) + 1 + owed + Due(StartedStack) <= NodeBound

CanOpen(owed) == CanStart(owed) /\ Len(stack) < MaxDepth

RECURSIVE Return(_, _, _)
\* A value has been serialized: its draft goes to the serializer that asked for it.
\*   serialize_some / serialize_newtype_*: wrap and return further;
\*   SequenceSchemaBuilder::serialize_element: schema.union(draft);
\*   MapSchemaBuilder::serialize_key: key_schema.union(draft);
\*   MapSchemaBuilder::serialize_value: value_schema.union(draft);
\*   TupleSchemaBuilder::serialize_element: schemas.push(draft);
\*   StructSchemaBuilder::serialize_field: field_types.push(draft).
Return(stk, draft, value) ==
    IF stk = <<>> THEN [stack |-> <<>>, root |-> draft, traced |-> <<value>>]
    ELSE
        LET top == stk[Len(stk)]
            rest == SubSeq(stk, 1, Len(stk) - 1)
            keep(frame) == [stack |-> Append(rest, frame), root |-> EmptyUnion,
                            traced |-> <<>>]
        IN  CASE top.f = "some" ->
                    Return(rest, OptionSome(draft), VSome(value))
              [] top.f = "newtype" ->
                    Return(rest, Newtype(top.name, draft),
                           VNewtype(top.vname, top.vvariant, value))
              [] top.f = "seq" ->
                    keep([top EXCEPT !.schema = union(@, draft),
                                     !.gv = Append(@, value)])
              [] top.f = "map" ->
                    IF Len(top.gv) % 2 = 0
                    THEN keep([top EXCEPT !.key_schema = union(@, draft),
                                          !.gv = Append(@, value)])
                    ELSE keep([top EXCEPT !.value_schema = union(@, draft),
                                          !.gv = Append(@, value)])
              [] top.f = "tuple" ->
                    keep([top EXCEPT !.schemas = Append(@, draft),
                                     !.gv = Append(@, value)])
              [] top.f = "struct" ->
                    keep([top EXCEPT !.field_types = Append(@, draft),
                                     !.gv = Append(@, VField(top.keys[Len(@) + 1], value))])

\* The builder's variables after a leaf wrote `tape` and returned `draft`.
Returned(tape, pool, draft, value) ==
    LET r == Return(StartedStack, draft, value)
    IN  /\ data' = tape
        /\ names' = pool
        /\ stack' = r.stack
        /\ root' = r.root
        /\ traced' = r.traced
        /\ phase' = IF r.traced = <<>> THEN "trace" ELSE "traced"
        /\ starts' = Append(starts, Len(data))
        /\ UNCHANGED <<name_lists, schemas, schema_lists, field_lists, root_index,
                       out, prev, da, db, universe>>

\* The builder's variables after a composite serializer was opened.
Opened(tape, pool, frame) ==
    /\ data' = tape
    /\ names' = pool
    /\ stack' = Append(StartedStack, frame)
    /\ starts' = Append(starts, Len(data))
    /\ UNCHANGED <<name_lists, schemas, schema_lists, field_lists, root, root_index,
                   phase, out, traced, prev, da, db, universe>>

\* The builder's variables after a composite serializer ended.
Ended(tape, lists, draft, value) ==
    LET r == Return(Rest, draft, value)
    IN  /\ data' = tape
        /\ name_lists' = lists
        /\ stack' = r.stack
        /\ root' = r.root
        /\ traced' = r.traced
        /\ phase' = IF r.traced = <<>> THEN "trace" ELSE "traced"
        /\ UNCHANGED <<names, schemas, schema_lists, field_lists, root_index, out,
                       starts, prev, da, db, universe>>

----------------------------------------------------------------------------
(* impl Serializer for &mut RootSchemaBuilder: one action per method.      *)

\* fn_serialize_as_u8: serialize_bool, serialize_i8, serialize_u8
fn_serialize_as_u8 ==
    \E leaf \in U8Leaves :
        LET kind == leaf[1]
            value == leaf[2]
        IN  /\ CanStart(0)
            /\ Returned(Append(push_trace(data, kind), value % 256), names,
                        Leaf(kind), VLeaf(kind, value))

\* fn_serialize_as_le_bytes: serialize_i16 ... serialize_f64
fn_serialize_as_le_bytes ==
    \E leaf \in LeLeaves :
        LET kind == leaf[1]
            value == leaf[2]
        IN  /\ CanStart(0)
            /\ Returned(push_trace(data, kind) \o leaf_bytes(kind, value), names,
                        Leaf(kind), VLeaf(kind, value))

serialize_char ==
    \E value \in Chars :
    /\ CanStart(0)
    /\ Returned(push_u32(push_trace(data, "Char"), value), names, Leaf("Char"),
                VLeaf("Char", value))

serialize_str ==
    \E value \in Strs :
    /\ CanStart(0)
    /\ Returned(push_length_bytes(push_trace(data, "String"), value), names,
                Leaf("String"), VLeaf("String", value))

serialize_bytes ==
    \E value \in ByteStrs :
    /\ CanStart(0)
    /\ Returned(push_length_bytes(push_trace(data, "Bytes"), value), names,
                Leaf("Bytes"), VLeaf("Bytes", value))

serialize_none ==
    /\ Options # {}
    /\ CanStart(0)
    /\ Returned(push_trace(data, "OptionNone"), names, Leaf("OptionNone"),
                VPlain("None"))

serialize_unit ==
    /\ Options # {}
    /\ CanStart(0)
    /\ Returned(push_trace(data, "Unit"), names, Unit(<<>>), VPlain("Unit"))

serialize_unit_struct ==
    \E name \in UnitStructs :
    /\ CanStart(0)
    /\ LET n == push_struct_name(names, push_trace(data, "UnitStruct"), name)
       IN  Returned(n.data, n.names, Unit(n.type_name), VNamed("Unit", name, <<>>))

serialize_unit_variant ==
    \E type \in UnitVariants :
    /\ CanStart(0)
    /\ LET n == push_variant_name(names, push_trace(data, "UnitVariant"), type[1],
                                  type[2])
       IN  Returned(n.data, n.names, Unit(n.type_name),
                    VNamed("Unit", type[1], <<type[2]>>))

serialize_some ==
    /\ Options # {}
    /\ CanOpen(1)
    /\ Opened(push_trace(data, "OptionSome"), names, [f |-> "some", due |-> 1])

serialize_newtype_struct ==
    \E name \in NewtypeStructs :
    /\ CanOpen(1)
    /\ LET n == push_struct_name(names, push_trace(data, "NewtypeStruct"), name)
       IN  Opened(n.data, n.names,
                  [f |-> "newtype", due |-> 1, name |-> n.type_name,
                   vname |-> name, vvariant |-> <<>>])

serialize_newtype_variant ==
    \E type \in NewtypeVariants :
    /\ CanOpen(1)
    /\ LET n == push_variant_name(names, push_trace(data, "NewtypeVariant"), type[1],
                                  type[2])
       IN  Opened(n.data, n.names,
                  [f |-> "newtype", due |-> 1, name |-> n.type_name,
                   vname |-> type[1], vvariant |-> <<type[2]>>])

serialize_seq ==
    /\ Seqs # {}
    /\ CanOpen(0)
    /\ LET tape == push_trace(data, "Sequence")
       IN  Opened(reserve_bytes(tape, 4), names,
                  [f |-> "seq", due |-> 0, reserved_length |-> Len(tape),
                   schema |-> EmptyUnion, length |-> 0, gv |-> <<>>])

serialize_map ==
    /\ Maps # {}
    /\ CanOpen(0)
    /\ LET tape == push_trace(data, "Map")
       IN  Opened(reserve_bytes(tape, 4), names,
                  [f |-> "map", due |-> 0, reserved_length |-> Len(tape),
                   key_schema |-> EmptyUnion, value_schema |-> EmptyUnion,
                   length |-> 0, gv |-> <<>>])

\* serialize_tuple, serialize_tuple_struct, serialize_tuple_variant
serialize_tuple ==
    \E type \in Tuples :
    LET name == type[1]
        variant == type[2]
        len == type[3]
    IN
    /\ CanOpen(len)
    /\ LET kind == IF name = "" THEN "Tuple"
                   ELSE IF variant = <<>> THEN "TupleStruct" ELSE "TupleVariant"
           tape == push_u32(push_trace(data, kind), len)
           n == IF name = "" THEN [names |-> names, data |-> tape, type_name |-> <<>>]
                ELSE push_type_name(names, tape, name, variant)
       IN  Opened(n.data, n.names,
                  [f |-> "tuple", due |-> len, name |-> n.type_name, length |-> len,
                   schemas |-> <<>>, vname |-> name, vvariant |-> variant,
                   gv |-> <<>>])

\* serialize_struct, serialize_struct_variant, with StructSchemaBuilder::new.
\* len counts the fields that will be serialized; `skip` are those that won't.
serialize_struct ==
    \E type \in StructTypes : \E skip \in SkipPlans(type[3]) :
    \E len \in DeclaredLengths(type[3], skip) :
    LET name == type[1]
        variant == type[2]
        keys == type[3]
        presented == Len(keys) - Cardinality(skip)
    IN  /\ CanOpen(presented)
        /\ LET kind == IF variant = <<>> THEN "Struct" ELSE "StructVariant"
               n == push_type_name(names, push_trace(data, kind), name, variant)
               reserved == reserve_bytes(n.data, 4)
               declared == push_u32(reserved, len)
           IN  Opened(reserve_bytes(declared, 4 * len), n.names,
                      [f |-> "struct", due |-> presented, awaiting |-> FALSE,
                       name |-> n.type_name,
                       reserved_field_name_list |-> Len(n.data),
                       reserved_field_presence |-> Len(declared),
                       field_names |-> <<>>, field_types |-> <<>>, skipped |-> <<>>,
                       keys |-> keys, skip |-> skip,
                       vname |-> name, vvariant |-> variant, gv |-> <<>>])

----------------------------------------------------------------------------
(* The compound serializers.                                               *)

InFrame(f) == phase = "trace" /\ stack # <<>> /\ Top.f = f

\* SequenceSchemaBuilder::end
SerializeSeq_end ==
    /\ InFrame("seq")
    /\ Ended(fill_reserved_bytes(data, Top.reserved_length, to_le_bytes(Top.length)),
             name_lists, Sequence(Top.schema), VSeq(Top.gv))

\* MapSchemaBuilder::end (after a value, never between a key and its value)
SerializeMap_end ==
    /\ InFrame("map")
    /\ Top.due = 0
    /\ Ended(fill_reserved_bytes(data, Top.reserved_length, to_le_bytes(Top.length)),
             name_lists, MapDraft(Top.key_schema, Top.value_schema), VMap(Top.gv))

\* TupleSchemaBuilder::end.  The method does not look at the number of elements
\* it was given.  Serializers written to serde's contract end a tuple after exactly
\* `len` elements; those of the arity specification may end it earlier.
SerializeTuple_end ==
    /\ InFrame("tuple")
    /\ IF universe = "arity" THEN Len(Top.schemas) <= Top.length
       ELSE Top.due = 0 /\ Len(Top.schemas) = Top.length
    /\ Ended(data, name_lists, Record(Top.name, <<>>, Top.schemas, <<>>, Top.length),
             VTuple(Top.vname, Top.vvariant, Top.gv))

\* StructSchemaBuilder::serialize_field, up to the serialization of the value
SerializeStruct_serialize_field ==
    /\ InFrame("struct")
    /\ ~Top.awaiting
    /\ Len(Top.field_names) < Len(Top.keys)
    /\ Len(Top.field_names) \notin Top.skip
    /\ IF ~Avail(data, Top.reserved_field_presence + 1, 4)
       THEN \* fill_reserved_bytes slices beyond the tape: the code aborts.
            /\ phase' = "aborted"
            /\ UNCHANGED <<data, names, stack>>
       ELSE LET key == intern(names, Top.keys[Len(Top.field_names) + 1])
            IN  /\ data' = write_field_presence(data, Top.reserved_field_presence,
                                                Len(Top.field_names))
                /\ names' = key.pool
                /\ stack' = Append(Rest,
                       [Top EXCEPT !.reserved_field_presence = @ + 4,
                                   !.field_names = Append(@, key.index),
                                   !.awaiting = TRUE])
                /\ phase' = phase
    /\ UNCHANGED <<name_lists, schemas, schema_lists, field_lists, root, root_index,
                   out, traced, starts, prev, da, db, universe>>

\* StructSchemaBuilder::skip_field
SerializeStruct_skip_field ==
    /\ InFrame("struct")
    /\ ~Top.awaiting
    /\ Len(Top.field_names) < Len(Top.keys)
    /\ Len(Top.field_names) \in Top.skip
    /\ LET key == intern(names, Top.keys[Len(Top.field_names) + 1])
       IN  /\ names' = key.pool
           /\ stack' = Append(Rest,
                  [Top EXCEPT !.skipped = Append(@, Len(Top.field_names)),
                              !.field_names = Append(@, key.index),
                              !.field_types = Append(@, EmptyUnion),
                              !.gv = Append(@, VSkipped(Top.keys[Len(@) + 1]))])
    /\ UNCHANGED <<data, name_lists, schemas, schema_lists, field_lists, root,
                   root_index, phase, out, traced, starts, prev, da, db, universe>>

\* StructSchemaBuilder::end with fill_reserved_field_name_list
SerializeStruct_end ==
    /\ InFrame("struct")
    /\ ~Top.awaiting
    /\ Len(Top.field_names) = Len(Top.keys)
    /\ LET list == intern(name_lists, Top.field_names)
       IN  Ended(fill_reserved_bytes(data, Top.reserved_field_name_list,
                                     to_le_bytes(list.index)),
                 list.pool,
                 Record(Top.name, <<list.index>>, Top.field_types, Top.skipped,
                        Len(Top.field_names)),
                 VStruct(Top.vname, Top.vvariant, Top.gv))

----------------------------------------------------------------------------
(* to_value and impl Serialize for Value.                                  *)

\* RootSchemaBuilder::into_value: the root draft is built into the pools.
into_value ==
    /\ phase = "traced"
    /\ LET built == build(root, Pools(schemas, schema_lists, field_lists))
       IN  /\ schemas' = built.r.schemas
           /\ schema_lists' = built.r.schema_lists
           /\ field_lists' = built.r.field_lists
           /\ root_index' = <<built.index>>
    /\ root' = EmptyUnion
    /\ phase' = "built"
    /\ UNCHANGED <<data, names, name_lists, stack, out, traced, starts, prev, da, db,
                   universe>>

\* The RootSchema of the Value.
TheSchema == RootSchema(schemas, names, name_lists, schema_lists, field_lists)

\* impl Serialize for Value: the sink is driven from the root.
Value_serialize_ ==
    /\ phase = "built"
    /\ out' = <<Value_serialize(TheSchema, data, root_index[1])>>
    /\ phase' = "emitted"
    /\ UNCHANGED <<data, names, name_lists, schemas, schema_lists, field_lists, root,
                   root_index, stack, traced, starts, prev, da, db, universe>>

\* SchemaBuilder::build output read back with the names resolved, so that nodes
\* of different RootSchemas can be compared.
RECURSIVE Resolve(_, _)
Resolve(R, index) ==
    LET node == schema(R, index)
        name(i) == R.names[i + 1]
        all(list) == [i \in 1..Len(list) |-> Resolve(R, list[i])]
        names_(list) == [i \in 1..Len(list) |-> name(list[i])]
    IN  CASE node.k = "OptionSome" -> [k |-> node.k, inner |-> Resolve(R, node.inner)]
          [] node.k = "UnitStruct" -> [k |-> node.k, name |-> name(node.name)]
          [] node.k = "UnitVariant" ->
                [k |-> node.k, name |-> name(node.name), variant |-> name(node.variant)]
          [] node.k = "NewtypeStruct" ->
                [k |-> node.k, name |-> name(node.name),
                 inner |-> Resolve(R, node.inner)]
          [] node.k = "NewtypeVariant" ->
                [k |-> node.k, name |-> name(node.name), variant |-> name(node.variant),
                 inner |-> Resolve(R, node.inner)]
          [] node.k = "Map" ->
                [k |-> node.k, key |-> Resolve(R, node.key),
                 value |-> Resolve(R, node.value)]
          [] node.k = "Sequence" -> [k |-> node.k, item |-> Resolve(R, node.item)]
          [] node.k = "Union" -> [k |-> node.k, list |-> all(schema_list(R, node.list))]
          [] node.k = "Tuple" ->
                [k |-> node.k, length |-> node.length,
                 list |-> all(schema_list(R, node.list))]
          [] node.k = "TupleStruct" ->
                [k |-> node.k, name |-> name(node.name), length |-> node.length,
                 list |-> all(schema_list(R, node.list))]
          [] node.k = "TupleVariant" ->
                [k |-> node.k, name |-> name(node.name), variant |-> name(node.variant),
                 length |-> node.length, list |-> all(schema_list(R, node.list))]
          [] node.k = "Struct" ->
                [k |-> node.k, name |-> name(node.name),
                 name_list |-> names_(name_list(R, node.name_list)),
                 skip_list |-> field_list(R, node.skip_list),
                 list |-> all(schema_list(R, node.list))]
          [] node.k = "StructVariant" ->
                [k |-> node.k, name |-> name(node.name), variant |-> name(node.variant),
                 name_list |-> names_(name_list(R, node.name_list)),
                 skip_list |-> field_list(R, node.skip_list),
                 list |-> all(schema_list(R, node.list))]
          [] OTHER -> node

\* to_value called again by the same process: RootSchemaBuilder::new starts from
\* a default builder; the previous Value is kept by the caller.
to_value ==
    /\ phase = "emitted"
    /\ prev = <<>>
    /\ prev' = <<[traced |-> traced[1], schema |-> Resolve(TheSchema, root_index[1]),
                  out |-> out[1]]>>
    /\ data' = <<>>
    /\ names' = <<>>
    /\ name_lists' = <<>>
    /\ schemas' = <<>>
    /\ schema_lists' = <<>>
    /\ field_lists' = <<>>
    /\ root' = EmptyUnion
    /\ root_index' = <<>>
    /\ stack' = <<>>
    /\ phase' = "trace"
    /\ out' = <<>>
    /\ traced' = <<>>
    /\ starts' = <<>>
    /\ UNCHANGED <<da, db, universe>>

\* RootSchemaBuilder::default
Fresh ==
    /\ data = <<>>
    /\ names = <<>>
    /\ name_lists = <<>>
    /\ schemas = <<>>
    /\ schema_lists = <<>>
    /\ field_lists = <<>>
    /\ root = EmptyUnion
    /\ root_index = <<>>
    /\ stack = <<>>
    /\ phase = "trace"
    /\ out = <<>>
    /\ traced = <<>>
    /\ starts = <<>>

Init ==
    /\ Fresh
    /\ prev = <<>>
    /\ da = EmptyUnion
    /\ db = EmptyUnion
    /\ universe = "main"

Next ==
    \/ fn_serialize_as_u8
    \/ fn_serialize_as_le_bytes
    \/ serialize_char
    \/ serialize_str
    \/ serialize_bytes
    \/ serialize_none
    \/ serialize_unit
    \/ serialize_unit_struct
    \/ serialize_unit_variant
    \/ serialize_some
    \/ serialize_newtype_struct
    \/ serialize_newtype_variant
    \/ serialize_seq
    \/ serialize_map
    \/ serialize_tuple
    \/ serialize_struct
    \/ SerializeSeq_end
    \/ SerializeMap_end
    \/ SerializeTuple_end
    \/ SerializeStruct_serialize_field
    \/ SerializeStruct_skip_field
    \/ SerializeStruct_end
    \/ into_value
    \/ Value_serialize_

Spec == Init /\ [][Next]_vars

----------------------------------------------------------------------------
(* Node headers: a value of at most MaxHeaderNodes nodes, with a leaf of    *)
(* every kind; only the tracing is followed.                                *)

InitHeader ==
    /\ Fresh
    /\ prev = <<>>
    /\ da = EmptyUnion
    /\ db = EmptyUnion
    /\ universe = "header"

NextHeader ==
    \/ fn_serialize_as_u8
    \/ fn_serialize_as_le_bytes
    \/ serialize_char
    \/ serialize_str
    \/ serialize_bytes
    \/ serialize_none
    \/ serialize_unit
    \/ serialize_unit_struct
    \/ serialize_unit_variant
    \/ serialize_some
    \/ serialize_newtype_struct
    \/ serialize_newtype_variant
    \/ serialize_seq
    \/ serialize_map
    \/ serialize_tuple
    \/ serialize_struct
    \/ SerializeSeq_end
    \/ SerializeMap_end
    \/ SerializeTuple_end
    \/ SerializeStruct_serialize_field
    \/ SerializeStruct_skip_field
    \/ SerializeStruct_end

SpecHeader == InitHeader /\ [][NextHeader]_vars

----------------------------------------------------------------------------
(* Structs with skipped fields: a struct S {a, b} of u8 fields, each of    *)
(* which a value may skip, alone or in a sequence; to_value is called      *)
(* twice.                                                                  *)

InitStruct ==
    /\ Fresh
    /\ prev = <<>>
    /\ da = EmptyUnion
    /\ db = EmptyUnion
    /\ universe = "struct"

NextStruct ==
    \/ fn_serialize_as_u8
    \/ serialize_seq
    \/ serialize_struct
    \/ SerializeSeq_end
    \/ SerializeStruct_serialize_field
    \/ SerializeStruct_skip_field
    \/ SerializeStruct_end
    \/ into_value
    \/ Value_serialize_
    \/ to_value

SpecStruct == InitStruct /\ [][NextStruct]_vars

----------------------------------------------------------------------------
(* Declared lengths: a struct S {a, b} of u8 and u32 fields, alone or in a  *)
(* sequence, whose Serialize impl passes serialize_struct any len from 0 to *)
(* 2 and then presents or skips each field.  Only the tracing is followed.  *)

InitDeclared ==
    /\ Fresh
    /\ prev = <<>>
    /\ da = EmptyUnion
    /\ db = EmptyUnion
    /\ universe = "declared"

NextDeclared ==
    \/ fn_serialize_as_u8
    \/ fn_serialize_as_le_bytes
    \/ serialize_seq
    \/ serialize_struct
    \/ SerializeSeq_end
    \/ SerializeStruct_serialize_field
    \/ SerializeStruct_skip_field
    \/ SerializeStruct_end

SpecDeclared == InitDeclared /\ [][NextDeclared]_vars

----------------------------------------------------------------------------
(* Wide structs: a sequence of structs W of MaxWide u8 fields.             *)

InitWide ==
    /\ Fresh
    /\ prev = <<>>
    /\ da = EmptyUnion
    /\ db = EmptyUnion
    /\ universe = "wide"

NextWide ==
    \/ fn_serialize_as_u8
    \/ serialize_seq
    \/ serialize_struct
    \/ SerializeSeq_end
    \/ SerializeStruct_serialize_field
    \/ SerializeStruct_skip_field
    \/ SerializeStruct_end
    \/ into_value
    \/ Value_serialize_

SpecWide == InitWide /\ [][NextWide]_vars

----------------------------------------------------------------------------
(* Heterogeneous sequences: a sequence of up to MaxPermute elements drawn   *)
(* from bool, u8, (), None and Some of bool or u8; to_value is called twice *)
(* so that the same elements are also traced in every other order.          *)

InitPermute ==
    /\ Fresh
    /\ prev = <<>>
    /\ da = EmptyUnion
    /\ db = EmptyUnion
    /\ universe = "permute"

NextPermute ==
    \/ fn_serialize_as_u8
    \/ serialize_none
    \/ serialize_unit
    \/ serialize_some
    \/ serialize_seq
    \/ SerializeSeq_end
    \/ into_value
    \/ Value_serialize_
    \/ to_value

SpecPermute == InitPermute /\ [][NextPermute]_vars

----------------------------------------------------------------------------
(* The stress enum: a sequence of Some(Enum::V000(1)), Some(Enum::V001(1)), *)
(* ... of up to MaxVariants elements, each a different newtype variant of   *)
(* one enum, the last of which may be None instead.                         *)

InitEnum ==
    /\ Fresh
    /\ prev = <<>>
    /\ da = EmptyUnion
    /\ db = EmptyUnion
    /\ universe = "enum"

NextEnum ==
    \/ fn_serialize_as_le_bytes
    \/ serialize_none
    \/ serialize_some
    \/ serialize_newtype_variant
    \/ serialize_seq
    \/ SerializeSeq_end
    \/ into_value
    \/ Value_serialize_

SpecEnum == InitEnum /\ [][NextEnum]_vars

----------------------------------------------------------------------------
(* Many skippable fields: a sequence of structs K of MaxFields u8 fields,   *)
(* each value with every field present or every field skipped.              *)

InitFields ==
    /\ Fresh
    /\ prev = <<>>
    /\ da = EmptyUnion
    /\ db = EmptyUnion
    /\ universe = "fields"

NextFields ==
    \/ fn_serialize_as_u8
    \/ serialize_seq
    \/ serialize_struct
    \/ SerializeSeq_end
    \/ SerializeStruct_serialize_field
    \/ SerializeStruct_skip_field
    \/ SerializeStruct_end
    \/ into_value
    \/ Value_serialize_

SpecFields == InitFields /\ [][NextFields]_vars

----------------------------------------------------------------------------
(* Tuple arity: a tuple, tuple struct or tuple variant declared with len 2, *)
(* alone or in a sequence, whose serializer ends it after 0, 1 or 2         *)
(* elements.                                                                *)

InitArity ==
    /\ Fresh
    /\ prev = <<>>
    /\ da = EmptyUnion
    /\ db = EmptyUnion
    /\ universe = "arity"

NextArity ==
    \/ fn_serialize_as_u8
    \/ serialize_seq
    \/ serialize_tuple
    \/ SerializeSeq_end
    \/ SerializeTuple_end
    \/ into_value
    \/ Value_serialize_

SpecArity == InitArity /\ [][NextArity]_vars

----------------------------------------------------------------------------
(* One Pool on its own: `names` is the pool, `prev` the calls made on it,   *)
(* each with the owned value it was about, the index it returned and the    *)
(* pool before and after it.  The index conversion fails only past 2^32     *)
(* entries, out of reach of MaxCalls calls.                                 *)

\* The contents interned.
PoolContents == {"a", "b", "c"}

Called(op, value, before, done) ==
    /\ names' = done.pool
    /\ prev' = Append(prev, [op |-> op, value |-> value, index |-> done.index,
                             before |-> before, after |-> done.pool])
    /\ UNCHANGED <<data, name_lists, schemas, schema_lists, field_lists, root,
                   root_index, stack, phase, out, traced, starts, da, db, universe>>

Pool_intern ==
    \E content \in PoolContents :
        /\ Len(prev) < MaxCalls
        /\ Called("intern", From(content), names, intern(names, From(content)))

Pool_intern_from ==
    \E content \in PoolContents :
        /\ Len(prev) < MaxCalls
        /\ Called("intern_from", From(content), names, intern_from(names, content))

Pool_intern_borrowed ==
    \E content \in PoolContents :
        /\ Len(prev) < MaxCalls
        /\ Called("intern_borrowed", From(content), names,
                  intern_borrowed(names, content))

InitPool ==
    /\ Fresh
    /\ prev = <<>>
    /\ da = EmptyUnion
    /\ db = EmptyUnion
    /\ universe = "pool"

NextPool ==
    \/ Pool_intern
    \/ Pool_intern_from
    \/ Pool_intern_borrowed

SpecPool == InitPool /\ [][NextPool]_vars

----------------------------------------------------------------------------
(* The anonymous name table on its own: `prev` holds the number looked up,  *)
(* `out` the result of the lookup.                                          *)

InitNames ==
    /\ Fresh
    /\ prev \in {<<n>> : n \in 0..MaxIndex}
    /\ da = EmptyUnion
    /\ db = EmptyUnion
    /\ universe = "names"

Looked(fn, result) ==
    /\ universe = "names"
    /\ out = <<>>
    /\ out' = <<[fn |-> fn, result |-> result]>>
    /\ UNCHANGED <<data, names, name_lists, schemas, schema_lists, field_lists, root,
                   root_index, stack, phase, traced, starts, prev, da, db, universe>>

serialized_anonymous_variant_ ==
    Looked("serialized_anonymous_variant", serialized_anonymous_variant(prev[1]))

deserialized_anonymous_variants_ ==
    Looked("deserialized_anonymous_variants", deserialized_anonymous_variants(prev[1]))

NextNames ==
    \/ serialized_anonymous_variant_
    \/ deserialized_anonymous_variants_

SpecNames == InitNames /\ [][NextNames]_vars

----------------------------------------------------------------------------
(* Described<T>::serialize: to_value(&self.0).map_err(S::Error::custom)?    *)
(* and then Value::serialize.  The value is a heterogeneous sequence, and   *)
(* the Serialize impl of any of its parts may fail with a custom error.     *)

\* impl serde::ser::Error for SerError: custom(msg) is SerError::Custom(msg).
SerError_custom(msg) == [error |-> "Custom", message |-> msg]

\* A variant of map_err_custom that has already driven the sink.
map_err_custom_started(error) ==
    Failed(Custom("custom: " \o error.message), 0, <<EvSeq(0)>>)

\* .map_err(S::Error::custom)?: serialize returns the sink's custom error made of
\* the Display form of the SerError, the sink not having been driven.
map_err_custom(error) == Failed(Custom("custom: " \o error.message), 0, <<>>)

\* The Serialize impl of the next part returns Err(S::Error::custom(msg)).  Every
\* open serializer returns it with `?`, RootSchemaBuilder::new and to_value
\* return it, and the builder is dropped.
Serialize_custom ==
    /\ universe = "described"
    /\ CanStart(0)
    /\ out' = <<map_err_custom(SerError_custom("unsupported"))>>
    /\ phase' = "failed"
    /\ data' = <<>>
    /\ names' = <<>>
    /\ name_lists' = <<>>
    /\ stack' = <<>>
    /\ starts' = <<>>
    /\ UNCHANGED <<schemas, schema_lists, field_lists, root, root_index, traced,
                   prev, da, db, universe>>

InitDescribed ==
    /\ Fresh
    /\ prev = <<>>
    /\ da = EmptyUnion
    /\ db = EmptyUnion
    /\ universe = "described"

NextDescribed ==
    \/ fn_serialize_as_u8
    \/ serialize_none
    \/ serialize_unit
    \/ serialize_some
    \/ serialize_seq
    \/ SerializeSeq_end
    \/ Serialize_custom
    \/ into_value
    \/ Value_serialize_

SpecDescribed == InitDescribed /\ [][NextDescribed]_vars

----------------------------------------------------------------------------
(* Maps whose Serialize impl calls serialize_key and serialize_value in any *)
(* order, on the two map serializers of the crate: MapSchemaBuilder         *)
(* (builder.rs), opened by serialize_map, and ValueSerializeMap (lib.rs).   *)
(* Keys and values are bool and u8 leaves.  `out` lists the calls made on   *)
(* the MapSchemaBuilder with their results, prev[1] is the                  *)
(* ValueSerializeMap: next_key is <<>> for the sentinel !0, and `calls`     *)
(* lists the calls made on it with their results.                           *)

\* (kind, value) of the keys and values presented.
MapLeaves == {<<"Bool", 1>>, <<"U8", 2>>}

\* The call and what it returned.
CallResult(call, result) == [call |-> call, result |-> result]

\* The MapSchemaBuilder after T::serialize(leaf, &mut *self.parent) returned.
MapSchemaBuilder_serialized(call, leaf, frame) ==
    /\ Len(out) < MaxCalls
    /\ data' = Append(push_trace(data, leaf[1]), leaf[2] % 256)
    /\ starts' = Append(starts, Len(data))
    /\ stack' = Append(Rest, [frame EXCEPT !.gv = Append(@, VLeaf(leaf[1], leaf[2]))])
    /\ out' = Append(out, CallResult(call, "ok"))
    /\ UNCHANGED <<names, name_lists, schemas, schema_lists, field_lists, root,
                   root_index, phase, traced, prev, da, db, universe>>

\* MapSchemaBuilder::serialize_key
MapSchemaBuilder_serialize_key ==
    \E leaf \in MapLeaves :
        /\ InFrame("map")
        /\ MapSchemaBuilder_serialized("key", leaf,
               [Top EXCEPT !.length = @ + 1, !.key_schema = union(@, Leaf(leaf[1]))])

\* MapSchemaBuilder::serialize_value
MapSchemaBuilder_serialize_value ==
    \E leaf \in MapLeaves :
        /\ InFrame("map")
        /\ MapSchemaBuilder_serialized("value", leaf,
               [Top EXCEPT !.value_schema = union(@, Leaf(leaf[1]))])

\* The ValueSerializeMap after the call.
ValueSerializeMap_called(map, call, result) ==
    /\ universe = "map"
    /\ Len(prev[1].calls) < MaxCalls
    /\ IF prev[1].calls = <<>> THEN TRUE
       ELSE prev[1].calls[Len(prev[1].calls)].result = "ok"
    /\ prev' = <<[map EXCEPT !.calls = Append(@, CallResult(call, result))]>>
    /\ UNCHANGED <<data, names, name_lists, schemas, schema_lists, field_lists, root,
                   root_index, stack, phase, out, traced, starts, da, db, universe>>

\* ValueSerializeMap::serialize_key; the node index of a leaf is its position
\* among the leaves.
ValueSerializeMap_serialize_key ==
    \E index \in 0..1 :
        IF prev[1].next_key = <<>>
        THEN ValueSerializeMap_called(prev[1], "key", "UnpairedMapKey")
        ELSE ValueSerializeMap_called([prev[1] EXCEPT !.next_key = <<index>>],
                                      "key", "ok")

\* ValueSerializeMap::serialize_value
ValueSerializeMap_serialize_value ==
    \E index \in 0..1 :
        IF prev[1].next_key = <<>>
        THEN ValueSerializeMap_called(prev[1], "value", "UnpairedMapValue")
        ELSE ValueSerializeMap_called(
                 [prev[1] EXCEPT !.entries = Append(@, <<prev[1].next_key[1], index>>),
                                 !.next_key = <<>>],
                 "value", "ok")

\* RootSchemaBuilder::default and ValueSerializer::serialize_map.
InitMap ==
    /\ Fresh
    /\ prev = <<[next_key |-> <<>>, entries |-> <<>>, calls |-> <<>>]>>
    /\ da = EmptyUnion
    /\ db = EmptyUnion
    /\ universe = "map"

NextMap ==
    \/ serialize_map
    \/ MapSchemaBuilder_serialize_key
    \/ MapSchemaBuilder_serialize_value
    \/ SerializeMap_end
    \/ ValueSerializeMap_serialize_key
    \/ ValueSerializeMap_serialize_value

SpecMap == InitMap /\ [][NextMap]_vars

----------------------------------------------------------------------------
(* Two emissions of one Value, a heterogeneous sequence, whose steps         *)
(* interleave.  prev[k] is emission k: Value::serialize makes it a tape      *)
(* cursor of its own (`let tail = Cell::new(&*self.data.0)`), `ev` are the   *)
(* events it has driven into its sink and `left` the elements it has yet to  *)
(* emit.  A step is the emission of one element of the sequence.             *)

Idle == [st |-> "idle"]

\* A variant of tail_of in which the emissions read one cursor, that of an
\* emission that has started.
tail_shared(emissions, k) ==
    emissions[CHOOSE j \in 1..2 : emissions[j].st # "idle"].tail

\* The tape cursor of emission k.
tail_of(emissions, k) == emissions[k].tail

Emission(k, emission) ==
    /\ prev' = [prev EXCEPT ![k] = emission]
    /\ UNCHANGED <<data, names, name_lists, schemas, schema_lists, field_lists, root,
                   root_index, stack, phase, out, traced, starts, da, db, universe>>

\* Value::serialize up to the sink's serialize_seq: ValueCursor::start pops the
\* root node, check accepts it and the length is popped.
Value_serialize_start ==
    \E k \in 1..2 :
        /\ universe = "concurrent"
        /\ phase = "built"
        /\ prev[k].st = "idle"
        /\ LET start == pop_child(TheSchema, data, root_index[1], 1)
               length == pop_u32(data, start.cur.data)
           IN  Emission(k, [st |-> "running", tail |-> start.cur.data + 4,
                            ev |-> <<EvSeq(length)>>, left |-> length])

\* serializer.serialize_element(&self.pop_child(item))?
Value_serialize_element ==
    \E k \in 1..2 :
        /\ universe = "concurrent"
        /\ prev[k].st = "running"
        /\ prev[k].left > 0
        /\ LET child == pop_child(TheSchema, data, schema(TheSchema, root_index[1]).item,
                                  tail_of(prev, k))
               done == serialize(TheSchema, data, child.cur)
           IN  IF ~child.ok THEN Emission(k, [prev[k] EXCEPT !.st = "panic"])
               ELSE Emission(k, [st |-> IF done.st = "ok" THEN "running" ELSE done.st,
                                 tail |-> done.tail, ev |-> prev[k].ev \o done.ev,
                                 left |-> prev[k].left - 1])

\* serializer.end()
Value_serialize_end ==
    \E k \in 1..2 :
        /\ universe = "concurrent"
        /\ prev[k].st = "running"
        /\ prev[k].left = 0
        /\ Emission(k, [prev[k] EXCEPT !.st = "ok", !.ev = Append(@, EvEnd)])

InitConcurrent ==
    /\ Fresh
    /\ prev = <<Idle, Idle>>
    /\ da = EmptyUnion
    /\ db = EmptyUnion
    /\ universe = "concurrent"

NextConcurrent ==
    \/ fn_serialize_as_u8
    \/ serialize_none
    \/ serialize_unit
    \/ serialize_some
    \/ serialize_seq
    \/ SerializeSeq_end
    \/ into_value
    \/ Value_serialize_start
    \/ Value_serialize_element
    \/ Value_serialize_end

SpecConcurrent == InitConcurrent /\ [][NextConcurrent]_vars

----------------------------------------------------------------------------
(* The read cursor: the inverse of emission.  It walks the Schema and the  *)
(* events the encoder hands back, and rebuilds the value.  A result is     *)
(* [ok, pos, value]; not ok is a Custom error.                             *)

Read(pos, value) == [ok |-> TRUE, pos |-> pos, value |-> value]
ReadError == [ok |-> FALSE]

\* The event at pos, or a non-event past the end.
EventAt(ev, pos) == IF pos <= Len(ev) THEN ev[pos] ELSE [e |-> "eof"]

\* Number of variant levels of a struct with n skippable fields.
Levels(n) == Max(1, (n + 7) \div 8)

RECURSIVE read(_, _, _, _)
RECURSIVE read_all(_, _, _, _, _, _, _)
RECURSIVE read_mask(_, _, _, _)

\* Children i..n under list[((i - 1) % Len(list)) + 1], as a sequence of values.
read_all(R, list, i, n, ev, pos, acc) ==
    IF i > n THEN Read(pos, acc)
    ELSE IF i = n THEN
        LET child == read(R, list[((i - 1) % Len(list)) + 1], ev, pos)
        IN  IF ~child.ok THEN ReadError
            ELSE Read(child.pos, Append(acc, child.value))
    ELSE LET mid == (i + n) \div 2
             first == read_all(R, list, i, mid, ev, pos, acc)
         IN  IF ~first.ok THEN ReadError
             ELSE read_all(R, list, mid + 1, n, ev, first.pos, first.value)

\* The variant chain of a skippable struct: `levels` more levels from pos, all but
\* the last newtype variants; the mask and the position of the tuple variant.
read_mask(ev, pos, level, levels) ==
    LET event == EventAt(ev, pos)
        anonymous == event.name = UNION_ENUM_NAME /\ event.index < MAX_UNION_ENUM_VARIANTS
    IN  IF level = levels - 1 THEN
            IF event.e = "tuple_variant" /\ anonymous
            THEN [ok |-> TRUE, mask |-> event.index, pos |-> pos]
            ELSE [ok |-> FALSE]
        ELSE IF event.e = "newtype_variant" /\ anonymous THEN
            LET inner == read_mask(ev, pos + 1, level + 1, levels)
            IN  IF inner.ok
                THEN [ok |-> TRUE, mask |-> event.index + 256 * inner.mask,
                      pos |-> inner.pos]
                ELSE inner
        ELSE [ok |-> FALSE]

\* Closes a compound: the end event is expected at the position reached.
ReadEnd(ev, done, Value(_)) ==
    IF ~done.ok THEN ReadError
    ELSE IF EventAt(ev, done.pos).e # "end" THEN ReadError
    ELSE Read(done.pos + 1, Value(done.value))

read(R, index, ev, pos) ==
    LET node == schema(R, index)
        event == EventAt(ev, pos)
        name(i) == R.names[i + 1]
        variant == IF node.k \in {"UnitVariant", "NewtypeVariant", "TupleVariant",
                                  "StructVariant"}
                   THEN <<name(node.variant)>> ELSE <<>>
    IN
    IF node.k = "Union" THEN
        LET list == schema_list(R, node.list)
            variants == deserialized_anonymous_variants(Len(list))
        IN  IF variants.ok /\ event.e = "newtype_variant"
               /\ event.name = UNION_ENUM_NAME /\ event.index < Len(list)
            THEN read(R, list[event.index + 1], ev, pos + 1)
            ELSE ReadError
    ELSE IF node.k \in {"Bool", "I8", "I16", "I32", "I64", "I128", "U8", "U16",
                        "U32", "U64", "U128", "F32", "F64", "Char"} THEN
        IF event.e = "leaf" /\ event.kind = node.k
        THEN Read(pos + 1, VLeaf(node.k, event.v)) ELSE ReadError
    ELSE IF node.k = "String" THEN
        IF event.e = "str" /\ ValidUtf8(event.v)
        THEN Read(pos + 1, VLeaf("String", event.v)) ELSE ReadError
    ELSE IF node.k = "Bytes" THEN
        IF event.e = "bytes" THEN Read(pos + 1, VLeaf("Bytes", event.v)) ELSE ReadError
    ELSE IF node.k = "OptionNone" THEN
        IF event.e = "unit" THEN Read(pos + 1, VPlain("None")) ELSE ReadError
    ELSE IF node.k = "Unit" THEN
        IF event.e = "unit" THEN Read(pos + 1, VPlain("Unit")) ELSE ReadError
    ELSE IF node.k \in {"UnitStruct", "UnitVariant"} THEN
        IF event.e = "unit"
        THEN Read(pos + 1, VNamed("Unit", name(node.name), variant)) ELSE ReadError
    ELSE IF node.k = "OptionSome" THEN
        LET inner == read(R, node.inner, ev, pos)
        IN  IF inner.ok THEN Read(inner.pos, VSome(inner.value)) ELSE ReadError
    ELSE IF node.k \in {"NewtypeStruct", "NewtypeVariant"} THEN
        LET inner == read(R, node.inner, ev, pos)
        IN  IF inner.ok
            THEN Read(inner.pos, VNewtype(name(node.name), variant, inner.value))
            ELSE ReadError
    ELSE IF node.k = "Sequence" THEN
        IF event.e # "seq" THEN ReadError
        ELSE ReadEnd(ev, read_all(R, <<node.item>>, 1, event.len, ev, pos + 1, <<>>),
                     LAMBDA items : VSeq(items))
    ELSE IF node.k = "Map" THEN
        IF event.e # "map" THEN ReadError
        ELSE ReadEnd(ev, read_all(R, <<node.key, node.value>>, 1, 2 * event.len, ev,
                                  pos + 1, <<>>),
                     LAMBDA items : VMap(items))
    ELSE IF node.k \in {"Tuple", "TupleStruct", "TupleVariant"} THEN
        LET list == schema_list(R, node.list)
        IN  IF event.e # "tuple" \/ event.len # node.length \/ Len(list) # node.length
            THEN ReadError
            ELSE ReadEnd(ev, read_all(R, list, 1, Len(list), ev, pos + 1, <<>>),
                         LAMBDA items :
                             VTuple(IF node.k = "Tuple" THEN "" ELSE name(node.name),
                                    variant, items))
    ELSE IF node.k \in {"Struct", "StructVariant"} THEN
        LET list == schema_list(R, node.list)
            keys == name_list(R, node.name_list)
            skip_list == field_list(R, node.skip_list)
            fields(present, values) ==
                [i \in 1..Len(keys) |->
                    IF (i - 1) \in present
                    THEN VField(name(keys[i]),
                                values[Cardinality({j \in present : j < i})])
                    ELSE VSkipped(name(keys[i]))]
        IN  IF skip_list = <<>> THEN
                IF event.e # "tuple" \/ event.len # Len(list) THEN ReadError
                ELSE ReadEnd(ev, read_all(R, list, 1, Len(list), ev, pos + 1, <<>>),
                             LAMBDA values :
                                 VStruct(name(node.name), variant,
                                         fields(0..(Len(keys) - 1), values)))
            ELSE
                LET chain == read_mask(ev, pos, 0, Levels(Len(skip_list)))
                IN  IF ~chain.ok THEN ReadError
                    ELSE
                    LET absent == {skip_list[i] : i \in
                                      {j \in 1..Len(skip_list) :
                                          (chain.mask \div (2 ^ (j - 1))) % 2 = 0}}
                        present == (0..(Len(keys) - 1)) \ absent
                        order == SortSeq([i \in 1..Cardinality(present) |->
                                    CHOOSE f \in present :
                                        Cardinality({g \in present : g < f}) = i - 1],
                                    <)
                    IN  IF ev[chain.pos].len # Cardinality(present) THEN ReadError
                        ELSE ReadEnd(ev,
                                 read_all(R, [i \in 1..Len(order) |-> list[order[i] + 1]],
                                          1, Len(order), ev, chain.pos + 1, <<>>),
                                 LAMBDA values :
                                     VStruct(name(node.name), variant,
                                             fields(present, values)))
    ELSE ReadError

\* Reading back what Value::serialize emitted, from the root.
read_back ==
    IF out[1].st # "ok" THEN ReadError
    ELSE LET done == read(TheSchema, root_index[1], out[1].ev, 1)
         IN  IF done.ok /\ done.pos = Len(out[1].ev) + 1 THEN done ELSE ReadError

----------------------------------------------------------------------------
(* Reading under a Union node.  The stress enum is traced and built; the   *)
(* source then presents, under one Union node of the Schema, a variant     *)
(* index below, at or beyond the number of alternatives, followed by what  *)
(* the alternative chosen expects.                                         *)

\* The enum the read cursor asks the source for under the Union node `index`:
\* deserialize_enum(UNION_ENUM_NAME, deserialized_anonymous_variants(|list|)?).
expected_enum(R, index) ==
    LET variants == deserialized_anonymous_variants(
                        Len(schema_list(R, schema(R, index).list)))
    IN  IF variants.ok
        THEN [ok |-> TRUE, name |-> UNION_ENUM_NAME, variants |-> variants.variants]
        ELSE variants

\* The events a source holds for a value of the node `index`.
RECURSIVE Presents(_, _)
Presents(R, index) ==
    LET node == schema(R, index)
    IN  CASE node.k \in {"OptionSome", "NewtypeStruct", "NewtypeVariant"} ->
                Presents(R, node.inner)
          [] node.k \in {"OptionNone", "Unit"} -> <<EvUnit>>
          [] node.k = "Union" ->
                <<EvNewtypeVariant(UNION_ENUM_NAME, 0, UNION_ENUM_VARIANT_NAMES[1])>>
                    \o Presents(R, schema_list(R, node.list)[1])
          [] OTHER -> <<EvLeaf(node.k, 1)>>

\* The variant indices a source presents under a Union of k alternatives.
SourceVariants(k) == {j \in {0, k - 1, k, k + 1} : j >= 0}

\* The source presents variant j under the Union node u.
Deserializer_deserialize_enum ==
    /\ phase = "built"
    /\ \E u \in {i \in 1..Len(schemas) : schemas[i].k = "Union"} :
         LET list == schema_list(TheSchema, schemas[u].list)
         IN  \E j \in SourceVariants(Len(list)) :
               LET payload == IF list = <<>> THEN <<>>
                              ELSE Presents(TheSchema, list[(j % Len(list)) + 1])
                   source == <<[e |-> "newtype_variant", name |-> UNION_ENUM_NAME,
                                index |-> j]>> \o payload
               IN  prev' = <<[node |-> u - 1, variant |-> j, payload |-> payload,
                              expected |-> expected_enum(TheSchema, u - 1),
                              result |-> read(TheSchema, u - 1, source, 1)]>>
    /\ phase' = "read"
    /\ UNCHANGED <<data, names, name_lists, schemas, schema_lists, field_lists, root,
                   root_index, stack, out, traced, starts, da, db, universe>>

NextReader ==
    \/ fn_serialize_as_le_bytes
    \/ serialize_none
    \/ serialize_some
    \/ serialize_newtype_variant
    \/ serialize_seq
    \/ SerializeSeq_end
    \/ into_value
    \/ Deserializer_deserialize_enum

SpecReader == InitEnum /\ [][NextReader]_vars

----------------------------------------------------------------------------
(* Unification on its own.  A shape is what one value presents to the      *)
(* builder; DraftOf is the draft the Serializer returns for it.  da and db *)
(* are the item schemas of two SequenceSchemaBuilders of one builder (type *)
(* name 0 is "S", field-name list 0 is its fields), fed shape by shape.    *)

ShLeaf(kind) == [s |-> "Leaf", kind |-> kind]
ShSome(inner) == [s |-> "Some", inner |-> inner]
ShNewtype(name, inner) == [s |-> "Newtype", name |-> name, inner |-> inner]
ShSeq(items) == [s |-> "Seq", items |-> items]
ShMap(items) == [s |-> "Map", items |-> items]
ShAbsent == [s |-> "Absent"]
ShRecord(name, field_names, fields) ==
    [s |-> "Record", name |-> name, field_names |-> field_names, fields |-> fields]

RECURSIVE DraftOf(_)
RECURSIVE fold_union(_, _, _)

\* schema.union(child) over the children i.. of a compound, from `acc`.
fold_union(acc, drafts, i) ==
    IF i > Len(drafts) THEN acc ELSE fold_union(union(acc, drafts[i]), drafts, i + 1)

\* What <&mut RootSchemaBuilder as Serializer> returns for a value of the shape.
DraftOf(sh) ==
    CASE sh.s = "Leaf" -> Leaf(sh.kind)
      [] sh.s = "Some" -> OptionSome(DraftOf(sh.inner))
      [] sh.s = "Newtype" -> Newtype(sh.name, DraftOf(sh.inner))
      [] sh.s = "Seq" ->
            Sequence(fold_union(EmptyUnion,
                                [i \in 1..Len(sh.items) |-> DraftOf(sh.items[i])], 1))
      [] sh.s = "Map" ->
            LET n == Len(sh.items) \div 2
            IN  MapDraft(fold_union(EmptyUnion,
                             [i \in 1..n |-> DraftOf(sh.items[2 * i - 1])], 1),
                         fold_union(EmptyUnion,
                             [i \in 1..n |-> DraftOf(sh.items[2 * i])], 1))
      [] sh.s = "Record" ->
            Record(sh.name, sh.field_names,
                   [i \in 1..Len(sh.fields) |->
                       IF sh.fields[i] = ShAbsent THEN EmptyUnion
                       ELSE DraftOf(sh.fields[i])],
                   SelectSeq([i \in 1..Len(sh.fields) |-> i - 1],
                             LAMBDA f : sh.fields[f + 1] = ShAbsent),
                   Len(sh.fields))

\* The shapes presented.
LeafShapes == {ShLeaf("U8"), ShLeaf("Bool")}
FieldShapes == LeafShapes \cup {ShAbsent}
Shapes ==
    LeafShapes
    \cup {ShSome(sh) : sh \in LeafShapes}
    \cup {ShNewtype(<<0>>, sh) : sh \in LeafShapes}
    \cup {ShSeq(<<>>), ShSeq(<<ShLeaf("U8")>>), ShSeq(<<ShLeaf("U8"), ShLeaf("Bool")>>)}
    \cup {ShMap(<<>>), ShMap(<<ShLeaf("U8"), ShLeaf("Bool")>>)}
    \cup {ShRecord(<<0>>, <<0>>, <<f, g>>) : f \in FieldShapes, g \in FieldShapes}
    \cup {ShRecord(<<>>, <<>>, <<f, g>>) : f \in LeafShapes, g \in LeafShapes}

RECURSIVE DraftSize(_)
RECURSIVE SumSizes(_)
SumSizes(drafts) ==
    IF drafts = <<>> THEN 0 ELSE DraftSize(Head(drafts)) + SumSizes(Tail(drafts))

\* Number of nodes of a draft.
DraftSize(d) ==
    CASE d.k \in {"OptionSome", "Newtype"} -> 1 + DraftSize(d.inner)
      [] d.k = "Sequence" -> 1 + DraftSize(d.item)
      [] d.k = "Map" -> 1 + DraftSize(d.key) + DraftSize(d.value)
      [] d.k = "Union" -> 1 + SumSizes(d.alts)
      [] d.k = "Record" -> 1 + SumSizes(d.field_types)
      [] OTHER -> 1

\* SequenceSchemaBuilder::serialize_element on the first sequence
serialize_element_a ==
    \E sh \in Shapes :
        /\ DraftSize(union(da, DraftOf(sh))) <= MaxDraft
        /\ da' = union(da, DraftOf(sh))
        /\ UNCHANGED <<data, names, name_lists, schemas, schema_lists, field_lists,
                       root, root_index, stack, phase, out, traced, starts, prev, db,
                       universe>>

\* SequenceSchemaBuilder::serialize_element on the second sequence
serialize_element_b ==
    \E sh \in Shapes :
        /\ DraftSize(union(db, DraftOf(sh))) <= MaxDraft
        /\ db' = union(db, DraftOf(sh))
        /\ UNCHANGED <<data, names, name_lists, schemas, schema_lists, field_lists,
                       root, root_index, stack, phase, out, traced, starts, prev, da,
                       universe>>

\* unify of the two Sequence drafts: left.union(*right) on their items
unify_sequences ==
    /\ da # EmptyUnion
    /\ db # EmptyUnion
    /\ DraftSize(union(da, db)) <= MaxDraft
    /\ da' = union(da, db)
    /\ db' = EmptyUnion
    /\ UNCHANGED <<data, names, name_lists, schemas, schema_lists, field_lists, root,
                   root_index, stack, phase, out, traced, starts, prev, universe>>

InitUnion ==
    /\ Fresh
    /\ prev = <<>>
    /\ da = EmptyUnion
    /\ db = EmptyUnion
    /\ universe = "drafts"

NextUnion ==
    \/ serialize_element_a
    \/ serialize_element_b
    \/ unify_sequences

SpecUnion == InitUnion /\ [][NextUnion]_vars

----------------------------------------------------------------------------
(* Properties.                                                             *)

Finished == phase \in {"built", "emitted"}
RootNode == schema(TheSchema, root_index[1])
UnionNodes == {i \in 1..Len(schemas) : schemas[i].k = "Union"}

RECURSIVE NodeCount(_)
RECURSIVE SumCounts(_)
SumCounts(values) ==
    IF values = <<>> THEN 0 ELSE NodeCount(Head(values)) + SumCounts(Tail(values))

\* Number of tape nodes of a presented value.
NodeCount(v) ==
    CASE v.t \in {"Some", "Newtype"} -> 1 + NodeCount(v.inner)
      [] v.t \in {"Seq", "Map", "Tuple"} -> 1 + SumCounts(v.items)
      [] v.t = "Struct" ->
            LET present == SelectSeq(v.fields, LAMBDA f : f.present)
            IN  1 + SumCounts([i \in 1..Len(present) |-> present[i].value])
      [] OTHER -> 1

\* The traced value is a non-empty sequence of struct values.
StructItems ==
    /\ Finished
    /\ traced[1].t = "Seq"
    /\ traced[1].items # <<>>
    /\ \A i \in 1..Len(traced[1].items) : traced[1].items[i].t = "Struct"

Items == traced[1].items
ItemNode == schema(TheSchema, RootNode.item)
ItemOffset(i) == starts[2 + SumCounts(SubSeq(Items, 1, i - 1))]

\* The emission of schema node `index` on the tape node at `offset`.
EmitAt(index, offset) ==
    serialize(TheSchema, data, pop_child(TheSchema, data, index, offset + 1).cur)

EmitItem(i) == EmitAt(RootNode.item, ItemOffset(i))

\* The present-field sequence the tape holds for the struct node at `offset`.
PresenceAt(offset) ==
    LET node == pop_trace_node(data, offset + 1)
        length == pop_u32(data, node.pos)
    IN  iter_field_indices(SubSeq(data, node.pos + 4, node.pos + 3 + 4 * length))

\* The (0-based) fields a struct value presents / omits.
Present(v) == {i - 1 : i \in {j \in 1..Len(v.fields) : v.fields[j].present}}
Omitted(v) == {i - 1 : i \in {j \in 1..Len(v.fields) : ~v.fields[j].present}}

Bit(m, b) == (m \div (2 ^ b)) % 2

\* C1: tracing a value with to_value, emitting the Value to a non-self-describing
\* encoder and reading the output back under the same Schema yields the value.
C1_RoundTrip ==
    phase = "emitted" => read_back.ok /\ read_back.value = traced[1]

C3_MaskBits ==
    StructItems /\ field_list(TheSchema, ItemNode.skip_list) # <<>> =>
        \A i \in 1..Len(Items) :
            LET skip_list == field_list(TheSchema, ItemNode.skip_list)
                presence == PresenceAt(ItemOffset(i))
                m == variant_from_presence(skip_list, presence)
            IN  /\ \A b \in 0..(Len(skip_list) - 1) :
                      Bit(m, b) = 1 <=> skip_list[b + 1] \in Range(presence)
                /\ m >= 0
                /\ m < 2 ^ Len(skip_list)

\* A struct with more than 8 skippable fields whose mask has set and clear bits in
\* its low byte and a set bit above it.
C3_Witness ==
    /\ StructItems
    /\ Len(field_list(TheSchema, ItemNode.skip_list)) > 8
    /\ \E i \in 1..Len(Items) :
          LET m == variant_from_presence(field_list(TheSchema, ItemNode.skip_list),
                                         PresenceAt(ItemOffset(i)))
          IN  m > 255 /\ m % 256 \notin {0, 255}

RECURSIVE MaskOf(_, _, _)
\* The presence mask of a struct value: bit b for skip-list[b], from bit b on.
MaskOf(v, skip_list, b) ==
    IF b >= Len(skip_list) THEN 0
    ELSE (IF skip_list[b + 1] \in Present(v) THEN 2 ^ b ELSE 0)
             + MaskOf(v, skip_list, b + 1)

RECURSIVE IndexSum(_, _, _)
\* The number whose base-256 digits are the variant indices of events k..levels.
IndexSum(ev, k, levels) ==
    IF k > levels THEN 0 ELSE ev[k].index + 256 * IndexSum(ev, k + 1, levels)

\* The events of the present fields of a struct value whose fields are leaves.
LeafEvents(v) ==
    LET present == SelectSeq(v.fields, LAMBDA f : f.present)
    IN  [i \in 1..Len(present) |-> EvLeaf(present[i].value.t, present[i].value.v)]

\* C4: a struct with n skippable fields and presence mask m is emitted as a chain
\* of max(1, ceil(n/8)) synthesized variants, all newtype variants but the last,
\* which is a tuple variant holding the present fields in order; the index at level
\* k is (m >> 8k) & 0xFF, below 256, the name is the anonymous name of the index,
\* and the indices determine m.
C4_VariantChain ==
    StructItems /\ field_list(TheSchema, ItemNode.skip_list) # <<>> =>
        \A i \in 1..Len(Items) :
            LET skip_list == field_list(TheSchema, ItemNode.skip_list)
                n == Len(skip_list)
                m == MaskOf(Items[i], skip_list, 0)
                levels == Max(1, (n + 7) \div 8)
                emitted == EmitItem(i)
                ev == emitted.ev
            IN  /\ emitted.st = "ok"
                /\ Len(ev) >= levels
                /\ \A k \in 0..(levels - 1) :
                      LET index == (m \div (256 ^ k)) % 256
                      IN  /\ ev[k + 1].e = IF k < levels - 1 THEN "newtype_variant"
                                           ELSE "tuple_variant"
                          /\ ev[k + 1].name = "Union"
                          /\ ev[k + 1].index = index
                          /\ ev[k + 1].index < 256
                          /\ ev[k + 1].variant = UNION_ENUM_VARIANT_NAMES[index + 1]
                /\ ev[levels].len = Cardinality(Present(Items[i]))
                /\ SubSeq(ev, levels + 1, Len(ev)) = LeafEvents(Items[i]) \o <<EvEnd>>
                /\ IndexSum(ev, 1, levels) = m

\* A struct with more than 8 skippable fields was emitted as a two-level chain
\* whose two indices are both non-zero.
C4_Witness ==
    /\ StructItems
    /\ phase = "emitted"
    /\ Len(field_list(TheSchema, ItemNode.skip_list)) > 8
    /\ \E i \in 1..Len(Items) :
          /\ EmitItem(i).ev[1].e = "newtype_variant"
          /\ EmitItem(i).ev[1].index > 0
          /\ EmitItem(i).ev[2].e = "tuple_variant"
          /\ EmitItem(i).ev[2].index > 0

\* C5: in a finished Schema no Union node has an alternative list of length 0 or 1.
C5_NoShortUnion ==
    Finished =>
        \A u \in UnionNodes : Len(schema_list(TheSchema, schemas[u].list)) >= 2

\* C5, amended: in a finished Schema no Union node has exactly one alternative (a
\* draft Union that gets its first alternative becomes that alternative); a Union
\* of no alternatives is the type of a position no value was presented at.
C5_NoSingletonUnion ==
    Finished =>
        \A u \in UnionNodes : Len(schema_list(TheSchema, schemas[u].list)) # 1

\* A sequence of one element was built: its item type is the element's node, and
\* that element is an empty sequence, whose item type is the empty Union.
C5_Witness ==
    /\ Finished
    /\ traced[1].t = "Seq"
    /\ Len(traced[1].items) = 1
    /\ traced[1].items[1] = VSeq(<<>>)
    /\ ItemNode.k = "Sequence"
    /\ schema(TheSchema, ItemNode.item).k = "Union"
    /\ schema_list(TheSchema, schema(TheSchema, ItemNode.item).list) = <<>>

\* C6: a sequence of struct values in which one field is skipped in every element
\* and another is always presented yields a Struct node whose skip-list contains
\* the index of the always-skipped field.
C6_AlwaysSkippedInSkipList ==
    StructItems =>
        \A f \in 0..(Len(Items[1].fields) - 1) :
            (/\ \A i \in 1..Len(Items) : f \in Omitted(Items[i])
             /\ \E g \in 0..(Len(Items[1].fields) - 1) :
                   \A i \in 1..Len(Items) : g \in Present(Items[i]))
            => f \in Range(field_list(TheSchema, ItemNode.skip_list))

\* Two traced values are one struct value with different subsets omitted.
SameUpToOmission(v, w) ==
    /\ v.t = "Struct"
    /\ w.t = "Struct"
    /\ <<v.name, v.variant, Len(v.fields)>> = <<w.name, w.variant, Len(w.fields)>>
    /\ \A i \in 1..Len(v.fields) :
          /\ v.fields[i].key = w.fields[i].key
          /\ v.fields[i].present /\ w.fields[i].present
                => v.fields[i].value = w.fields[i].value

\* C7: tracing the same struct value with any subset of its skippable fields
\* omitted yields the same finished Schema node, whichever subset is chosen.
C7_SameNodeWhicheverSubset ==
    prev # <<>> /\ Finished /\ SameUpToOmission(prev[1].traced, traced[1])
        => Resolve(TheSchema, root_index[1]) = prev[1].schema

\* C7, amended: values of one struct type that omit different subsets of its
\* skippable fields unify into one node: the item type of a sequence of them is a
\* single Struct node (never a Union) with the type's name and all its field
\* names, whose skip-list holds only fields that some value omitted.
C7_OneStructNode ==
    StructItems =>
        LET node == Resolve(TheSchema, RootNode.item)
        IN  /\ node.k = "Struct"
            /\ node.name = Items[1].name
            /\ node.name_list = [i \in 1..Len(Items[1].fields) |-> Items[1].fields[i].key]
            /\ \A f \in Range(node.skip_list) :
                  \E i \in 1..Len(Items) : f \in Omitted(Items[i])

\* Two structs that omit different fields were traced in one sequence.
C7_Witness ==
    /\ StructItems
    /\ Len(Items) = 2
    /\ Omitted(Items[1]) = {0}
    /\ Omitted(Items[2]) = {1}
    /\ field_list(TheSchema, ItemNode.skip_list) = <<0, 1>>

\* C8: two traced values of one finished struct schema that differ in which fields
\* are present, or in the value of a present field, drive the sink with different
\* event streams.
C8_EmissionInjective ==
    StructItems =>
        \A i \in 1..Len(Items) : \A j \in 1..Len(Items) :
            Items[i] # Items[j] => EmitItem(i).ev # EmitItem(j).ev

RECURSIVE Norm(_)
\* A draft with the alternatives of every Union, at every depth, as a set.
Norm(d) ==
    CASE d.k \in {"OptionSome", "Newtype"} -> [d EXCEPT !.inner = Norm(@)]
      [] d.k = "Sequence" -> [d EXCEPT !.item = Norm(@)]
      [] d.k = "Map" -> [d EXCEPT !.key = Norm(@), !.value = Norm(@)]
      [] d.k = "Union" -> [k |-> "Union", alts |-> {Norm(a) : a \in Range(d.alts)}]
      [] d.k = "Record" ->
            [d EXCEPT !.field_types = [i \in 1..Len(@) |-> Norm(@[i])]]
      [] OTHER -> d

\* C9: union is commutative once the alternatives of every Union are compared as
\* sets, and idempotent.
C9_UnionLaws ==
    /\ Norm(union(da, db)) = Norm(union(db, da))
    /\ union(da, da) = da
    /\ union(db, db) = db

\* Two drafts whose unions differ in the order of nested alternatives only.
C9_Witness ==
    /\ da.k = "Record"
    /\ db.k = "Record"
    /\ union(da, db).k = "Record"
    /\ union(da, db) # union(db, da)
    /\ Norm(union(da, db)) = Norm(union(db, da))

RECURSIVE Accepts(_, _)
\* A draft accepts a shape: directly, through one of its Union alternatives, or
\* recursively, a skippable field being allowed to be absent.
Accepts(d, sh) ==
    CASE d.k = "Union" -> \E i \in 1..Len(d.alts) : Accepts(d.alts[i], sh)
      [] d.k = "OptionSome" -> sh.s = "Some" /\ Accepts(d.inner, sh.inner)
      [] d.k = "Newtype" ->
            sh.s = "Newtype" /\ sh.name = d.name /\ Accepts(d.inner, sh.inner)
      [] d.k = "Sequence" ->
            sh.s = "Seq" /\ \A i \in 1..Len(sh.items) : Accepts(d.item, sh.items[i])
      [] d.k = "Map" ->
            sh.s = "Map"
            /\ \A i \in 1..Len(sh.items) :
                  Accepts(IF i % 2 = 1 THEN d.key ELSE d.value, sh.items[i])
      [] d.k = "Record" ->
            /\ sh.s = "Record"
            /\ <<sh.name, sh.field_names, Len(sh.fields)>>
                   = <<d.name, d.field_names, d.length>>
            /\ \A i \in 1..Len(sh.fields) :
                  IF sh.fields[i] = ShAbsent THEN (i - 1) \in Range(d.skippable)
                  ELSE Accepts(d.field_types[i], sh.fields[i])
      [] OTHER -> sh.s = "Leaf" /\ sh.kind = d.k

\* C10: after a.union(b) the draft accepts every shape a accepted and every shape
\* b accepted.
C10_UnionAccepts ==
    \A sh \in Shapes :
        Accepts(da, sh) \/ Accepts(db, sh) => Accepts(union(da, db), sh)

\* Two Records were unified and the result accepts a shape with an absent field
\* that only the right one accepted.
C10_Witness ==
    /\ da.k = "Record"
    /\ db.k = "Record"
    /\ union(da, db).k = "Record"
    /\ \E sh \in Shapes :
          /\ sh.s = "Record"
          /\ ShAbsent \in Range(sh.fields)
          /\ ~Accepts(da, sh)
          /\ Accepts(db, sh)
          /\ Accepts(union(da, db), sh)

RECURSIVE NormNode(_)
\* A resolved Schema node with the alternatives of every Union, at every depth,
\* as a set.
NormNode(node) ==
    CASE node.k = "Union" -> [k |-> "Union", list |-> {NormNode(a) : a \in Range(node.list)}]
      [] node.k \in {"OptionSome", "NewtypeStruct", "NewtypeVariant"} ->
            [node EXCEPT !.inner = NormNode(@)]
      [] node.k = "Sequence" -> [node EXCEPT !.item = NormNode(@)]
      [] node.k = "Map" -> [node EXCEPT !.key = NormNode(@), !.value = NormNode(@)]
      [] node.k \in {"Tuple", "TupleStruct", "TupleVariant", "Struct", "StructVariant"} ->
            [node EXCEPT !.list = [i \in 1..Len(@) |-> NormNode(@[i])]]
      [] OTHER -> node

\* The bag of the elements of a sequence of values.
BagOf(items) == [v \in Range(items) |-> Cardinality({i \in 1..Len(items) : items[i] = v})]

\* The value traced now is a sequence holding the elements of the sequence traced
\* before, in some order.
Permuted ==
    /\ prev # <<>>
    /\ Finished
    /\ prev[1].traced.t = "Seq"
    /\ traced[1].t = "Seq"
    /\ BagOf(prev[1].traced.items) = BagOf(traced[1].items)

\* C11: tracing the elements of a heterogeneous sequence in another order yields
\* the same finished Schema, the alternatives of every Union compared as sets.
C11_PermutationInvariant ==
    Permuted => NormNode(Resolve(TheSchema, root_index[1])) = NormNode(prev[1].schema)

\* Two orders of one heterogeneous sequence whose Schemas list the alternatives of
\* a Union in different orders.
C11_Witness ==
    /\ Permuted
    /\ Len(traced[1].items) = MaxPermute
    /\ prev[1].traced.items # traced[1].items
    /\ Resolve(TheSchema, root_index[1]) # prev[1].schema
    /\ NormNode(Resolve(TheSchema, root_index[1])) = NormNode(prev[1].schema)

----------------------------------------------------------------------------
(* The stress enum.                                                         *)

\* The distinct newtype variants among the elements of the traced sequence.
TracedVariants ==
    {traced[1].items[i].inner.variant[1] :
        i \in {j \in 1..Len(traced[1].items) : traced[1].items[j].t = "Some"}}

\* C12: a sequence of distinct newtype variants of one enum, each wrapped in Some
\* and optionally followed by None, is emitted and read back as itself, whatever
\* its length up to MaxVariants.
C12_StressEnumRoundTrip ==
    phase = "emitted" /\ universe = "enum" =>
        /\ out[1].st = "ok"
        /\ read_back.ok
        /\ read_back.value = traced[1]

\* Up to the size of the anonymous variant table the stress enum does round-trip.
C12_WithinTable ==
    phase = "emitted" /\ universe = "enum"
        /\ Cardinality(TracedVariants) <= MAX_UNION_ENUM_VARIANTS =>
        /\ out[1].st = "ok"
        /\ read_back.ok
        /\ read_back.value = traced[1]

\* C13: a value that makes one Union node hold more alternatives than the anonymous
\* variant table has names is rejected with the error TooManyUnionVariants.
C13_TooManyUnionVariants ==
    phase \in {"traced", "built", "emitted"} /\ universe = "enum"
        /\ Cardinality(TracedVariants) > MAX_UNION_ENUM_VARIANTS =>
        /\ phase = "emitted"
        /\ out[1].st = "error"
        /\ out[1].error = "TooManyUnionVariants"

\* What the code does instead: the value is traced and built, and emission fails
\* with the sink's custom error.
C13_CustomError ==
    phase = "emitted" /\ universe = "enum"
        /\ Cardinality(TracedVariants) > MAX_UNION_ENUM_VARIANTS =>
        /\ out[1].st = "error"
        /\ out[1].error = Custom("too many union variants")

----------------------------------------------------------------------------
(* Many skippable fields.                                                   *)

\* Some struct of the traced sequence skipped more than 64 fields.
TooManySkippable ==
    /\ universe = "fields"
    /\ phase \in {"traced", "built", "emitted"}
    /\ \E i \in 1..Len(traced[1].items) :
           Cardinality({j \in 1..MaxFields : ~traced[1].items[i].fields[j].present}) > 64

\* C14: a struct with more than 64 skippable fields is rejected with the error
\* TooManyFields, returned as an error and not raised as an abort.
C14_TooManyFields ==
    TooManySkippable =>
        /\ phase = "emitted"
        /\ out[1].st = "error"
        /\ out[1].error = "TooManyFields"

\* What the code does instead: the value is traced and built, and its emission
\* aborts.
C14_Aborts ==
    TooManySkippable /\ phase = "emitted" => out[1].st = "panic"

----------------------------------------------------------------------------
(* Well-formedness of the finished Schema.                                  *)

\* Indexing `pool` with the 0-based `index` succeeds.
Dereferences(index, pool) == index \in 0..(Len(pool) - 1)

\* Every index held by the node dereferences in the pool of its type, and the
\* field indices of a skip-list are fields of the struct.
NodeDereferences(node) ==
    /\ "name" \in DOMAIN node => Dereferences(node.name, names)
    /\ "variant" \in DOMAIN node => Dereferences(node.variant, names)
    /\ "inner" \in DOMAIN node => Dereferences(node.inner, schemas)
    /\ "item" \in DOMAIN node => Dereferences(node.item, schemas)
    /\ "key" \in DOMAIN node => Dereferences(node.key, schemas)
    /\ "value" \in DOMAIN node => Dereferences(node.value, schemas)
    /\ "list" \in DOMAIN node => Dereferences(node.list, schema_lists)
    /\ "name_list" \in DOMAIN node => Dereferences(node.name_list, name_lists)
    /\ "skip_list" \in DOMAIN node =>
            /\ Dereferences(node.skip_list, field_lists)
            /\ Dereferences(node.name_list, name_lists)
            /\ \A f \in Range(field_list(TheSchema, node.skip_list)) :
                   Dereferences(f, name_list(TheSchema, node.name_list))

\* C15: in a finished Schema the root index, every index held by a node and every
\* index inside a schema list or a name list dereferences in its pool, and every
\* field index of a skip-list is below the field count of its struct.
C15_IndicesDereference ==
    Finished =>
        /\ Dereferences(root_index[1], schemas)
        /\ \A i \in 1..Len(schemas) : NodeDereferences(schemas[i])
        /\ \A i \in 1..Len(schema_lists) : \A index \in Range(schema_lists[i]) :
               Dereferences(index, schemas)
        /\ \A i \in 1..Len(name_lists) : \A index \in Range(name_lists[i]) :
               Dereferences(index, names)

\* A finished Schema with a struct of several fields and a second named node.
C15_Witness ==
    /\ Finished
    /\ \E i \in 1..Len(schemas) :
           /\ schemas[i].k \in {"Struct", "StructVariant"}
           /\ Len(schema_list(TheSchema, schemas[i].list)) > 1
    /\ Len(schema_lists) > 1

\* The Tuple, TupleStruct and TupleVariant nodes of the Schema.
TupleNodes ==
    {i \in 1..Len(schemas) : schemas[i].k \in {"Tuple", "TupleStruct", "TupleVariant"}}

\* C19: in a finished Schema the arity of every Tuple, TupleStruct and TupleVariant
\* node equals the length of its node-list, whatever calls the builder accepted, so
\* the emission of a tuple never fails its arity assertion.
C19_TupleArity ==
    Finished =>
        \A i \in TupleNodes :
            schemas[i].length = Len(schema_list(TheSchema, schemas[i].list))

\* The tuples of the traced value (a tuple or a sequence of tuples).
TracedTuples ==
    IF traced[1].t = "Tuple" THEN {traced[1]}
    ELSE {traced[1].items[i] : i \in 1..Len(traced[1].items)}

\* When every tuple was given the two elements it declared, the arities are right
\* and the emission completes.
C19_ExactCallers ==
    Finished /\ universe = "arity" /\ (\A t \in TracedTuples : Len(t.items) = 2) =>
        /\ \A i \in TupleNodes :
               schemas[i].length = Len(schema_list(TheSchema, schemas[i].list))
        /\ phase = "emitted" => out[1].st = "ok"

\* The Struct and StructVariant nodes of the Schema, their skip-lists and field
\* counts.
StructNodes == {i \in 1..Len(schemas) : schemas[i].k \in {"Struct", "StructVariant"}}
SkipListOf(i) == field_list(TheSchema, schemas[i].skip_list)
FieldCount(i) == Len(name_list(TheSchema, schemas[i].name_list))

\* The node has as many field names as field types, and its skip-list is strictly
\* increasing (sorted, no duplicates) with every entry a field index of the node.
StructListsAgree(i) ==
    /\ FieldCount(i) = Len(schema_list(TheSchema, schemas[i].list))
    /\ \A j \in 1..Len(SkipListOf(i)) : SkipListOf(i)[j] \in 0..(FieldCount(i) - 1)
    /\ \A j \in 1..Len(SkipListOf(i)) : \A k \in 1..Len(SkipListOf(i)) :
           j < k => SkipListOf(i)[j] < SkipListOf(i)[k]

\* C18: in a finished Schema every Struct and StructVariant node has as many field
\* names as field types, and its skip-list is a sorted, deduplicated strict
\* subsequence of 0..len(name-list): it leaves out at least one field index.
C18_StrictSubsequence ==
    Finished =>
        \A i \in StructNodes :
            StructListsAgree(i) /\ Len(SkipListOf(i)) < FieldCount(i)

\* C18, amended: in a finished Schema every Struct and StructVariant node has as
\* many field names as field types, and its skip-list is a sorted, deduplicated
\* subsequence of 0..len(name-list), which may hold every field index.
C18_SortedSubsequence ==
    Finished => \A i \in StructNodes : StructListsAgree(i)

\* Two structs were unified whose skippable lists arrive in descending order.
C18_Witness ==
    /\ StructItems
    /\ Len(Items) = 2
    /\ Omitted(Items[1]) = {1}
    /\ Omitted(Items[2]) = {0}
    /\ SkipListOf(RootNode.item + 1) = <<0, 1>>

\* C17: in a finished Schema the node-list of every Union node is strictly
\* increasing by node index: sorted, without duplicates.
C17_UnionListsIncreasing ==
    Finished =>
        \A u \in UnionNodes :
            LET list == schema_list(TheSchema, schemas[u].list)
            IN  \A j \in 1..Len(list) : \A k \in 1..Len(list) :
                    j < k => list[j] < list[k]

\* A sequence of Some(x) followed by a plain x was built: the second alternative
\* of the draft is interned before the first one.
C17_Witness ==
    /\ Finished
    /\ traced[1].t = "Seq"
    /\ Len(traced[1].items) = 2
    /\ traced[1].items[1].t = "Some"
    /\ traced[1].items[1].inner = traced[1].items[2]
    /\ RootNode.k = "Sequence"
    /\ schema(TheSchema, RootNode.item).k = "Union"
    /\ LET list == schema_list(TheSchema, schema(TheSchema, RootNode.item).list)
       IN  /\ Len(list) = 2
           /\ schema(TheSchema, list[1]) = [k |-> traced[1].items[2].t]
           /\ schema(TheSchema, list[2]) = [k |-> "OptionSome", inner |-> list[1]]

----------------------------------------------------------------------------
(* The Pool contract.                                                       *)

\* The values of the calls before call i.
ValuesBefore(i) == {prev[j].value : j \in 1..(i - 1)}

\* The first call about the value of call i.
FirstCall(i) == CHOOSE j \in 1..i : prev[j].value = prev[i].value
                                      /\ \A h \in 1..(j - 1) : prev[h].value # prev[i].value

\* C16: after any sequence of intern, intern_from and intern_borrowed calls on one
\* Pool, equal values were given equal indices and distinct values distinct
\* indices; the index of a value is the number of distinct values inserted before
\* it; every index returned still denotes its value, no entry was removed and the
\* pool lists the values in index order; and intern_borrowed returns the index
\* intern returns for the owned value, adding no entry when the value is present.
C16_PoolContract ==
    universe = "pool" =>
        /\ \A i \in 1..Len(prev) : \A j \in 1..Len(prev) :
               (prev[i].value = prev[j].value) <=> (prev[i].index = prev[j].index)
        /\ \A i \in 1..Len(prev) :
               /\ prev[i].index = Cardinality(ValuesBefore(FirstCall(i)))
               /\ names[prev[i].index + 1] = prev[i].value
               /\ Len(prev[i].before) <= Len(prev[i].after)
               /\ SubSeq(prev[i].after, 1, Len(prev[i].before)) = prev[i].before
               /\ SubSeq(names, 1, Len(prev[i].after)) = prev[i].after
        /\ Len(names) = Cardinality(ValuesBefore(Len(prev) + 1))
        /\ \A k \in 1..Len(names) :
               \E i \in 1..Len(prev) : prev[i].index = k - 1 /\ prev[i].value = names[k]
        /\ \A i \in 1..Len(prev) :
               prev[i].op = "intern_borrowed" =>
                   /\ prev[i].index = intern(prev[i].before, prev[i].value).index
                   /\ prev[i].value \in Range(prev[i].before) =>
                          prev[i].after = prev[i].before

\* Each method was called, intern_borrowed both for a value already present and
\* for a new one, and a value was interned again after another one.
C16_Witness ==
    /\ universe = "pool"
    /\ Len(prev) = MaxCalls
    /\ {prev[i].op : i \in 1..Len(prev)} = {"intern", "intern_from", "intern_borrowed"}
    /\ \E i \in 1..Len(prev) :
           /\ prev[i].op = "intern_borrowed"
           /\ prev[i].value \in Range(prev[i].before)
           /\ prev[i].index = 0
           /\ Len(prev[i].before) = 2
    /\ \E i \in 1..Len(prev) :
           /\ prev[i].op = "intern_borrowed"
           /\ prev[i].value \notin Range(prev[i].before)

----------------------------------------------------------------------------
(* The anonymous name table.                                                *)

\* The lowercase hexadecimal digit of d < 16.
LowerHex(d) == IF d < 10 THEN DIGITS[d + 1] ELSE <<"a", "b", "c", "d", "e", "f">>[d - 9]

\* "_" followed by the two-digit, zero-padded, lowercase hexadecimal form of i.
AnonymousName(i) == "_" \o LowerHex(i \div 16) \o LowerHex(i % 16)

\* C20: the anonymous variant table holds exactly 256 pairwise distinct names, the
\* name at index i being "_" and the two-digit lowercase hexadecimal form of i;
\* serialized_anonymous_variant(i) succeeds exactly for i < 256, with that name;
\* deserialized_anonymous_variants(n) succeeds exactly for n <= 256 and returns the
\* first n names, element i being the name serialized_anonymous_variant(i) gives.
C20_AnonymousNames ==
    universe = "names" =>
        /\ Len(UNION_ENUM_VARIANT_NAMES) = 256
        /\ Cardinality(Range(UNION_ENUM_VARIANT_NAMES)) = 256
        /\ out # <<>> /\ out[1].fn = "serialized_anonymous_variant" =>
               /\ out[1].result.ok <=> prev[1] < 256
               /\ out[1].result.ok => out[1].result.name = AnonymousName(prev[1])
        /\ out # <<>> /\ out[1].fn = "deserialized_anonymous_variants" =>
               /\ out[1].result.ok <=> prev[1] <= 256
               /\ out[1].result.ok =>
                      /\ Len(out[1].result.variants) = prev[1]
                      /\ \A i \in 0..(prev[1] - 1) :
                             /\ out[1].result.variants[i + 1] = AnonymousName(i)
                             /\ out[1].result.variants[i + 1]
                                    = serialized_anonymous_variant(i).name

\* The whole table was asked for and returned, last name "_ff".
C20_Witness ==
    /\ universe = "names"
    /\ out # <<>>
    /\ out[1].fn = "deserialized_anonymous_variants"
    /\ prev[1] = 256
    /\ out[1].result.ok
    /\ out[1].result.variants[256] = "_ff"

----------------------------------------------------------------------------
(* Described<T>::serialize.                                                 *)

\* C21: the sink is driven only once to_value has returned a Value (the value is
\* wholly traced and its Schema built); when a step of the tracing fails there is
\* no Schema and no Value, the sink has received no event, and serialize returns
\* the error as a custom error of the sink.
C21_TraceBeforeEmission ==
    universe = "described" =>
        /\ phase \in {"trace", "traced", "built"} => out = <<>>
        /\ out # <<>> /\ out[1].ev # <<>> =>
               /\ phase = "emitted"
               /\ root_index # <<>>
               /\ traced # <<>>
               /\ stack = <<>>
        /\ phase = "failed" =>
               /\ out[1].st = "error"
               /\ out[1].error = Custom("custom: unsupported")
               /\ out[1].ev = <<>>
               /\ root_index = <<>>
               /\ schemas = <<>>
               /\ data = <<>>
               /\ traced = <<>>

\* The tracing of a value failed and serialize returned the error.
C21_Witness ==
    /\ universe = "described"
    /\ phase = "failed"
    /\ out[1].st = "error"
    /\ out[1].ev = <<>>

\* A sequence of two elements was traced, built and emitted.
C21_Emitted ==
    /\ universe = "described"
    /\ phase = "emitted"
    /\ Len(out[1].ev) > 2

----------------------------------------------------------------------------
(* Map keys and values.                                                     *)

RECURSIVE KeyPending(_, _)
\* A key is pending after the first n calls: the last accepted call was a key.
KeyPending(calls, n) ==
    IF n = 0 THEN FALSE
    ELSE IF calls[n].result # "ok" THEN KeyPending(calls, n - 1)
    ELSE calls[n].call = "key"

\* What the calls must have returned: a key while a key is pending fails with
\* UnpairedMapKey, a value while none is pending fails with UnpairedMapValue, and
\* every other call is accepted.
Paired(calls) ==
    \A n \in 1..Len(calls) :
        calls[n].result =
            CASE calls[n].call = "key" /\ KeyPending(calls, n - 1) -> "UnpairedMapKey"
              [] calls[n].call = "value" /\ ~KeyPending(calls, n - 1) -> "UnpairedMapValue"
              [] OTHER -> "ok"

\* C23: while a map is traced, a key presented while the previous key has no
\* value yet fails with UnpairedMapKey, a value presented while no key is pending
\* fails with UnpairedMapValue, and the calls key, value, key, value, ... are
\* accepted.
C23_UnpairedMap ==
    universe = "map" => Paired(out) /\ Paired(prev[1].calls)

\* The same of the MapSchemaBuilder alone and of the ValueSerializeMap alone.
C23_MapSchemaBuilder == universe = "map" => Paired(out)
C23_ValueSerializeMap == universe = "map" => Paired(prev[1].calls)

\* What the code does: the MapSchemaBuilder accepts every call, and the
\* ValueSerializeMap fails its first call.
C23_Actual ==
    universe = "map" =>
        /\ \A n \in 1..Len(out) : out[n].result = "ok"
        /\ Len(prev[1].calls) <= 1
        /\ \A n \in 1..Len(prev[1].calls) :
               prev[1].calls[n].result =
                   IF prev[1].calls[n].call = "key" THEN "UnpairedMapKey"
                   ELSE "UnpairedMapValue"

----------------------------------------------------------------------------
(* Interleaved emissions.                                                   *)

\* The emission of the Value on its own.
Solitary == Value_serialize(TheSchema, data, root_index[1])

\* What emission k has driven into its sink is what a solitary emission drives:
\* all of it once the emission has ended, the beginning of it before.
AsSolitary(k) ==
    CASE prev[k].st = "idle" -> TRUE
      [] prev[k].st = "running" ->
            /\ Len(prev[k].ev) <= Len(Solitary.ev)
            /\ prev[k].ev = SubSeq(Solitary.ev, 1, Len(prev[k].ev))
      [] OTHER ->
            /\ prev[k].st = Solitary.st
            /\ prev[k].ev = Solitary.ev
            /\ prev[k].tail = Solitary.tail

\* C22: emission never modifies the Schema or the tape of the Value, and each of
\* two emissions of one Value whose steps interleave drives its sink with the
\* event stream of a solitary emission.
C22_InterleavedEmissions ==
    /\ [](universe = "concurrent" /\ phase = "built" => AsSolitary(1) /\ AsSolitary(2))
    /\ [][universe = "concurrent" /\ phase = "built" =>
              UNCHANGED <<data, names, name_lists, schemas, schema_lists, field_lists,
                          root_index>>]_vars

\* Both emissions have ended, the second having started while the first was
\* in the middle of the sequence.
C22_Witness ==
    /\ universe = "concurrent"
    /\ phase = "built"
    /\ prev[1].st = "ok"
    /\ prev[2].st = "ok"
    /\ Len(prev[1].ev) > 3
    /\ prev[1].ev = prev[2].ev

\* The emissions are at different places of the tape.
C22_Apart ==
    /\ universe = "concurrent"
    /\ phase = "built"
    /\ prev[1].st = "running"
    /\ prev[2].st = "running"
    /\ prev[1].tail > prev[2].tail
    /\ prev[2].left > 0

----------------------------------------------------------------------------
(* Reading under a Union node.                                              *)

\* The alternative the source's variant selects, read on its own.
ReadAlternative ==
    LET list == schema_list(TheSchema, schema(TheSchema, prev[1].node).list)
    IN  read(TheSchema, list[prev[1].variant + 1], prev[1].payload, 1)

\* C24: under a Union node with k alternatives the read cursor offers the enum
\* "Union" with exactly the first k anonymous variant names, reads alternative j on
\* variant j < k, and answers a variant index >= k with a Custom error.
C24_ReadUnion ==
    phase = "read" =>
        LET k == Len(schema_list(TheSchema, schema(TheSchema, prev[1].node).list))
        IN  /\ prev[1].expected.ok
            /\ prev[1].expected.name = UNION_ENUM_NAME
            /\ prev[1].expected.variants = [i \in 1..k |-> AnonymousName(i - 1)]
            /\ IF prev[1].variant < k
               THEN /\ prev[1].result.ok
                    /\ prev[1].result.value = ReadAlternative.value
                    /\ prev[1].result.pos = ReadAlternative.pos + 1
               ELSE prev[1].result = ReadError

\* What holds: the same for every Union node within the anonymous variant table;
\* beyond it every read under the node is a Custom error.
C24_WithinTable ==
    phase = "read" =>
        LET k == Len(schema_list(TheSchema, schema(TheSchema, prev[1].node).list))
        IN  IF k <= MAX_UNION_ENUM_VARIANTS
            THEN /\ prev[1].expected.ok
                 /\ prev[1].expected.name = UNION_ENUM_NAME
                 /\ prev[1].expected.variants = [i \in 1..k |-> AnonymousName(i - 1)]
                 /\ IF prev[1].variant < k
                    THEN /\ prev[1].result.ok
                         /\ prev[1].result.value = ReadAlternative.value
                         /\ prev[1].result.pos = ReadAlternative.pos + 1
                    ELSE prev[1].result = ReadError
            ELSE /\ prev[1].expected = [ok |-> FALSE,
                                        error |-> Custom("too many union variants")]
                 /\ prev[1].result = ReadError

\* A variant below k was read, and a variant at or beyond k was refused.
C24_Selected ==
    /\ phase = "read"
    /\ prev[1].variant = 1
    /\ prev[1].result.ok

C24_OutOfRange ==
    /\ phase = "read"
    /\ prev[1].variant >= Len(schema_list(TheSchema, schema(TheSchema, prev[1].node).list))
    /\ prev[1].expected.ok
    /\ ~prev[1].result.ok

----------------------------------------------------------------------------
(* Emission against the tape.                                               *)

\* C25: emitting a traced and built value from the root never aborts on a
\* disagreement between tape and Schema (check yields no cursor, a read past the
\* end of the tape, a struct field popped that was never written), and a completed
\* emission leaves the tape cursor exactly at the end of the tape.
C25_EmissionConsumesTape ==
    phase = "emitted" =>
        /\ out[1].st # "panic"
        /\ out[1].st = "ok" => out[1].tail = Len(data) + 1

\* What the code does: every emission that completes has consumed the whole tape,
\* and the emission of a value with a struct field skipped in every element aborts.
C25_Completed ==
    phase = "emitted" /\ out[1].st = "ok" => out[1].tail = Len(data) + 1

C25_Aborted ==
    /\ phase = "emitted"
    /\ out[1].st = "panic"
    /\ StructItems
    /\ \E f \in 0..(Len(Items[1].fields) - 1) :
          \A i \in 1..Len(Items) : f \in Omitted(Items[i])

\* Among sequences of structs, only those with a field skipped in every element
\* abort.
C25_OnlyAlwaysSkipped ==
    phase = "emitted" /\ StructItems /\ out[1].st = "panic" => C25_Aborted

----------------------------------------------------------------------------
(* The presence slots of a struct being traced.                             *)

\* The first presence slot of an open struct: after the name-list slot and the
\* declared length.
PresenceStart(frame) == frame.reserved_field_name_list + 8

\* The presence sequence an open struct has written so far.
PresenceWritten(frame) ==
    [i \in 1..((frame.reserved_field_presence - PresenceStart(frame)) \div 4) |->
        pop_u32(data, PresenceStart(frame) + 4 * (i - 1) + 1)]

StrictlyIncreasing(s) == \A i \in 1..(Len(s) - 1) : s[i] < s[i + 1]

\* A serialize_field or skip_field call on the innermost open struct.
FieldCall ==
    /\ InFrame("struct")
    /\ Len(stack') = Len(stack)
    /\ stack'[Len(stack)].f = "struct"
    /\ Len(stack'[Len(stack)].field_names) = Len(Top.field_names) + 1

\* C26: the k-th serialize_field / skip_field call on a struct concerns field k; a
\* presented field writes k into the next free presence slot and moves the presence
\* cursor one slot on; a skipped field appends k to skipped and leaves the cursor
\* and the tape alone; the presence sequence and skipped are strictly increasing,
\* disjoint, and together hold exactly the indices of the calls made.
C26_PresenceAndSkipped ==
    /\ [](phase = "trace" =>
            \A d \in 1..Len(stack) :
                stack[d].f = "struct" =>
                    /\ StrictlyIncreasing(PresenceWritten(stack[d]))
                    /\ StrictlyIncreasing(stack[d].skipped)
                    /\ Range(PresenceWritten(stack[d])) \cap Range(stack[d].skipped) = {}
                    /\ Range(PresenceWritten(stack[d])) \cup Range(stack[d].skipped)
                           = 0..(Len(stack[d].field_names) - 1))
    /\ [][FieldCall =>
            LET k == Len(Top.field_names)
                after == stack'[Len(stack)]
            IN  IF after.awaiting
                THEN /\ pop_u32(data', Top.reserved_field_presence + 1) = k
                     /\ after.reserved_field_presence = Top.reserved_field_presence + 4
                     /\ after.skipped = Top.skipped
                ELSE /\ after.skipped = Append(Top.skipped, k)
                     /\ after.reserved_field_presence = Top.reserved_field_presence
                     /\ data' = data]_vars

\* A struct whose first field was skipped and whose second field was presented.
C26_Witness ==
    /\ InFrame("struct")
    /\ Top.skipped = <<0>>
    /\ PresenceWritten(Top) = <<1>>

----------------------------------------------------------------------------
(* Reserved slots.                                                          *)

RECURSIVE Preorder(_)
RECURSIVE PreorderAll(_)
PreorderAll(values) ==
    IF values = <<>> THEN <<>>
    ELSE Preorder(Head(values)) \o PreorderAll(Tail(values))

\* The nodes of a presented value in the order their tape nodes were started.
Preorder(v) ==
    CASE v.t \in {"Some", "Newtype"} -> <<v>> \o Preorder(v.inner)
      [] v.t \in {"Seq", "Map", "Tuple"} -> <<v>> \o PreorderAll(v.items)
      [] v.t = "Struct" ->
            LET present == SelectSeq(v.fields, LAMBDA f : f.present)
            IN  <<v>> \o PreorderAll([i \in 1..Len(present) |-> present[i].value])
      [] OTHER -> <<v>>

\* The four bytes of the tape from the 0-based offset.
Slot(offset) == SubSeq(data, offset + 1, offset + 4)

\* The tape node of the presented value v at `offset` holds no placeholder: its
\* reserved slots hold what the claim says.
SlotsFilled(v, offset) ==
    CASE v.t = "Seq" -> Slot(offset + 1) = to_le_bytes(Len(v.items))
      [] v.t = "Map" -> Slot(offset + 1) = to_le_bytes(Len(v.items) \div 2)
      [] v.t = "Struct" ->
            LET list == offset + 1 + 4 * (1 + Len(v.variant))
                declared == pop_u32(data, list + 5)
            IN  /\ \E h \in 0..(Len(name_lists) - 1) :
                      /\ Slot(list) = to_le_bytes(h)
                      /\ [i \in 1..Len(name_lists[h + 1]) |->
                              names[name_lists[h + 1][i] + 1]]
                             = [i \in 1..Len(v.fields) |-> v.fields[i].key]
                /\ \A i \in 1..declared :
                      \E f \in Present(v) : Slot(list + 4 + 4 * i) = to_le_bytes(f)
      [] OTHER -> TRUE

\* C27: once a value has been traced without error, no reserved placeholder is left:
\* every sequence or map length slot holds the number of elements (keys), every
\* struct's name-list slot holds the handle of its interned field names, and each
\* of its declared presence slots holds the index of a presented field.
C27_NoPlaceholder ==
    phase = "traced" =>
        \A k \in 1..Len(starts) : SlotsFilled(Preorder(traced[1])[k], starts[k])

\* What holds: the same for every struct that was declared with the number of
\* fields it went on to present.
C27_ExactCallers ==
    phase = "traced" =>
        \A k \in 1..Len(starts) :
            LET v == Preorder(traced[1])[k]
                declared == pop_u32(data, starts[k] + 4 * (1 + Len(v.variant)) + 6)
            IN  (v.t = "Struct" => declared = Cardinality(Present(v)))
                    => SlotsFilled(v, starts[k])

\* A struct declared with two fields was traced with one of them skipped.
C27_Underfilled ==
    /\ phase = "traced"
    /\ traced[1].t = "Struct"
    /\ Cardinality(Present(traced[1])) = 1
    /\ pop_u32(data, 10) = 2
    /\ Slot(17) = <<255, 255, 255, 255>>

\* The bytes (1-based positions) of the slots the innermost open serializer has
\* reserved and may still fill.
ReservedBytes ==
    IF stack = <<>> THEN {}
    ELSE CASE Top.f \in {"seq", "map"} ->
                  (Top.reserved_length + 1)..(Top.reserved_length + 4)
           [] Top.f = "struct" ->
                  (Top.reserved_field_name_list + 1)
                      ..(PresenceStart(Top)
                           + 4 * pop_u32(data, Top.reserved_field_name_list + 5))
           [] OTHER -> {}

\* C28: the tape only grows, and a write that is not an append changes only bytes
\* of a slot reserved by the open serializer that performs it; whatever the number
\* of serialize_field calls, write_field_presence stays inside the presence region
\* the struct declared, so no byte written for a child value is altered.
C28_ReservedSlotsOnly ==
    [][phase = "trace" =>
          /\ phase' # "aborted"
          /\ Len(data') >= Len(data)
          /\ \A i \in 1..Len(data) : data'[i] # data[i] => i \in ReservedBytes]_vars

\* What holds: a struct that presents no more fields than it declared writes only
\* into its own slots.
C28_WithinDeclared ==
    [][(/\ phase = "trace"
        /\ InFrame("struct") =>
              (Top.reserved_field_presence - PresenceStart(Top)) \div 4
                  < pop_u32(data, Top.reserved_field_name_list + 5)) =>
          /\ phase' # "aborted"
          /\ Len(data') >= Len(data)
          /\ \A i \in 1..Len(data) : data'[i] # data[i] => i \in ReservedBytes]_vars

\* A struct declared with one field presented a second one, whose index went over
\* the bytes of the first field's value.
C28_Overwritten ==
    /\ InFrame("struct")
    /\ pop_u32(data, Top.reserved_field_name_list + 5) = 1
    /\ Top.reserved_field_presence = PresenceStart(Top) + 8
    /\ Slot(PresenceStart(Top) + 4) = to_le_bytes(1)

\* The same with a one-byte first field: the write runs off the tape.
C28_Aborted == phase = "aborted"

----------------------------------------------------------------------------
(* Node headers.                                                            *)

\* The kind of tape node the builder writes for a presented value.
WrittenKind(v) ==
    CASE v.t = "None" -> "OptionNone"
      [] v.t = "Some" -> "OptionSome"
      [] v.t = "Unit" /\ "name" \notin DOMAIN v -> "Unit"
      [] v.t = "Unit" /\ "name" \in DOMAIN v ->
            IF v.variant = <<>> THEN "UnitStruct" ELSE "UnitVariant"
      [] v.t = "Newtype" ->
            IF v.variant = <<>> THEN "NewtypeStruct" ELSE "NewtypeVariant"
      [] v.t = "Seq" -> "Sequence"
      [] v.t = "Map" -> "Map"
      [] v.t = "Tuple" ->
            IF v.variant # <<>> THEN "TupleVariant"
            ELSE IF v.name # "" THEN "TupleStruct" ELSE "Tuple"
      [] v.t = "Struct" -> IF v.variant = <<>> THEN "Struct" ELSE "StructVariant"
      [] OTHER -> v.t

\* The present fields of a struct value, in order.
PresentSeq(v) ==
    LET present == SelectSeq([i \in 1..Len(v.fields) |-> [i |-> i - 1, f |-> v.fields[i]]],
                             LAMBDA e : e.f.present)
    IN  [i \in 1..Len(present) |-> present[i].i]

\* What pop_trace_node and the payload reads of the emit cursor return for the node
\* written at `offset` for the value v, the next node starting at position `next`:
\* the fields the builder was given, and the cursor at the first child.
HeaderAgrees(v, offset, next) ==
    LET header == pop_trace_node(data, offset + 1)
        node == header.node
        kind == WrittenKind(v)
        named == kind \in {"UnitStruct", "UnitVariant", "NewtypeStruct",
                           "NewtypeVariant", "TupleStruct", "TupleVariant",
                           "Struct", "StructVariant"}
        length == pop_u32(data, header.pos)
    IN  /\ data[offset + 1] = KindByte(kind)
        /\ header.ok
        /\ node.k = kind
        /\ named => names[node.name + 1] = v.name
        /\ (named /\ v.variant # <<>>) => names[node.variant + 1] = v.variant[1]
        /\ CASE kind \in {"Tuple", "TupleStruct", "TupleVariant"} ->
                    /\ node.length = Len(v.items)
                    /\ header.pos = next
             [] kind \in {"Struct", "StructVariant"} ->
                    /\ [i \in 1..Len(name_lists[node.name_list + 1]) |->
                            names[name_lists[node.name_list + 1][i] + 1]]
                           = [i \in 1..Len(v.fields) |-> v.fields[i].key]
                    /\ length = Len(PresentSeq(v))
                    /\ iter_field_indices(SubSeq(data, header.pos + 4,
                                                 header.pos + 3 + 4 * length))
                           = PresentSeq(v)
                    /\ header.pos + 4 + 4 * length = next
             [] kind = "Sequence" ->
                    length = Len(v.items) /\ header.pos + 4 = next
             [] kind = "Map" ->
                    length = Len(v.items) \div 2 /\ header.pos + 4 = next
             [] kind \in {"OptionNone", "OptionSome", "Unit", "UnitStruct",
                          "UnitVariant", "NewtypeStruct", "NewtypeVariant"} ->
                    header.pos = next
             [] OTHER -> TRUE

\* C29: the 30 kinds have the kind bytes 0..29 in the order of the enumeration,
\* TryFrom<u8> inverts the kind byte and refuses every byte from 30 on; and for
\* every node of a traced value pop_trace_node and the payload reads return what
\* the builder was given, in the order it wrote it, and stop at the first child.
C29_HeadersAgree ==
    /\ Len(TraceNodeKind) = 30
    /\ \A i \in 1..Len(TraceNodeKind) :
          /\ KindByte(TraceNodeKind[i]) = i - 1
          /\ TryFrom_u8(i - 1) = [ok |-> TRUE, kind |-> TraceNodeKind[i]]
    /\ \A b \in 0..255 :
          /\ TryFrom_u8(b).ok <=> b < 30
          /\ TryFrom_u8(b).ok => KindByte(TryFrom_u8(b).kind) = b
          /\ b >= 30 => ~pop_trace_node(<<b>>, 1).ok
    /\ phase = "traced" =>
          \A k \in 1..Len(starts) :
              HeaderAgrees(Preorder(traced[1])[k], starts[k],
                           IF k < Len(starts) THEN starts[k + 1] + 1
                           ELSE Len(data) + 1)

\* A struct variant with a presented field and a tuple variant have been traced.
C29_Witness ==
    /\ phase = "traced"
    /\ traced[1].t = "Tuple"
    /\ traced[1].variant # <<>>
    /\ traced[1].items[1].t = "Struct"
    /\ traced[1].items[1].variant # <<>>
    /\ traced[1].items[1].fields[1].present

----------------------------------------------------------------------------
(* Tape nodes under a Union.                                                *)

\* The number, in the order of starts, of child i of the node numbered k, the
\* children being `values`.
ChildAt(k, values, i) == k + 1 + SumCounts(SubSeq(values, 1, i - 1))

RECURSIVE UniqueAt(_, _)
\* Every tape node of the subtree of node number k, traced under the schema node
\* `index`, that stands under a Union passes check for exactly one alternative.
UniqueAt(index, k) ==
    LET node == schema(TheSchema, index)
        v == Preorder(traced[1])[k]
    IN  IF node.k = "Union" THEN
            LET list == schema_list(TheSchema, node.list)
                start == pop_child(TheSchema, data, index, starts[k] + 1).cur
                alt(i) == Cursor(schema(TheSchema, list[i]), start.trace, start.data)
                hits == {i \in 1..Len(list) : check(TheSchema, alt(i)).some}
            IN  /\ Cardinality(hits) = 1
                /\ UniqueAt(list[CHOOSE i \in hits : TRUE], k)
        ELSE
            CASE node.k \in {"OptionSome", "NewtypeStruct", "NewtypeVariant"} ->
                    UniqueAt(node.inner, k + 1)
              [] node.k = "Sequence" ->
                    \A i \in 1..Len(v.items) :
                        UniqueAt(node.item, ChildAt(k, v.items, i))
              [] node.k = "Map" ->
                    \A i \in 1..Len(v.items) :
                        UniqueAt(IF i % 2 = 1 THEN node.key ELSE node.value,
                                 ChildAt(k, v.items, i))
              [] node.k \in {"Tuple", "TupleStruct", "TupleVariant"} ->
                    \A i \in 1..Len(v.items) :
                        UniqueAt(schema_list(TheSchema, node.list)[i],
                                 ChildAt(k, v.items, i))
              [] node.k \in {"Struct", "StructVariant"} ->
                    LET present == PresentSeq(v)
                        values == [i \in 1..Len(present) |->
                                      v.fields[present[i] + 1].value]
                    IN  \A i \in 1..Len(present) :
                            UniqueAt(schema_list(TheSchema, node.list)[present[i] + 1],
                                     ChildAt(k, values, i))
              [] OTHER -> TRUE

\* C30: every tape node traced at a position whose finished schema node is a Union
\* passes check for exactly one alternative of the Union's list.
C30_ExactlyOneAlternative ==
    Finished => UniqueAt(root_index[1], 1)

\* A sequence of two elements was traced whose item node is a Union of two or more
\* alternatives.
C30_Witness ==
    /\ Finished
    /\ RootNode.k = "Sequence"
    /\ ItemNode.k = "Union"
    /\ Len(schema_list(TheSchema, ItemNode.list)) >= 2
    /\ Len(traced[1].items) >= 2

====
